---------------------------- MODULE Spec2Model ----------------------------
(***************************************************************************)
(* A model of showdex's useCalcdexPresets() hook: the AutoPreset effect    *)
(* (the per-slot resolution cascade), the Sheets effect (the one-shot      *)
(* reconciliation pass), the playerAutoNonce() fingerprint that gates the  *)
(* AutoPreset effect, and the React effect scheduling around them.         *)
(***************************************************************************)
EXTENDS Integers, Sequences, FiniteSets, TLC

(***************************************************************************)
(* Bounds of the model.                                                    *)
(***************************************************************************)
\* how many external events (reveals, sheet waves, user edits, ...) a battle sees
MaxEvents == 3
\* how many waves of leaked sheets may arrive
MaxWaves == 2

(***************************************************************************)
(* Program constants.                                                      *)
(***************************************************************************)
\* a slot holds at most 4 moves (revealedMoves.length === 4)
MaxMoves == 4

NULL == "null"

AllPlayerKeys == <<"p1", "p2">>

(***************************************************************************)
(* Small helpers over sequences (Array.prototype.includes / every / ...).  *)
(***************************************************************************)
Includes(seq, x) == \E i \in DOMAIN seq : seq[i] = x

Range(seq) == { seq[i] : i \in DOMAIN seq }

EveryIn(seq, pool) == \A i \in DOMAIN seq : Includes(pool, seq[i])

\* the first element of an array destructuring, `[x] = list` (undefined when empty)
First(seq, none) == IF seq = <<>> THEN none ELSE Head(seq)

\* [...list].filter(Boolean) over a list of names
FilterBoolean(seq) == SelectSeq(seq, LAMBDA x : x # NULL)

\* nonEmptyObject() of a stats table (a table is a sequence of stat values)
nonEmptyObject(table) == table # <<>>

\* formatId(): lower-cases and strips everything but letters and digits
formatId(name) ==
  CASE name = "Alice" -> "alice"
    [] name = "ALICE" -> "alice"
    [] name = "Bob" -> "bob"
    [] name = "B.o.b" -> "bob"
    [] name = "Volt Switch" -> "voltswitch"
    [] name = "volt switch" -> "voltswitch"
    [] name = "Surf" -> "surf"
    [] name = "Volt Tackle" -> "volttackle"
    [] name = "Thunderbolt" -> "thunderbolt"
    [] name = "Pika Pika" -> "pikapika"
    [] name = "Trace" -> "trace"
    [] name = "No Ability" -> "noability"
    [] OTHER -> name

\* getGenlessFormat(): the format without its gen prefix
getGenlessFormat(format) ==
  CASE format = "gen9ou" -> "ou"
    [] format = "gen1ou" -> "ou"
    [] format = "gen9ubers" -> "ubers"
    [] format = "gen9randombattle" -> "randombattle"
    [] OTHER -> format

\* String.prototype.includes('random') of a format
IsRandoms(format) == format \in {"gen9randombattle"}

(***************************************************************************)
(* Candidates ("presets").  A stats table is a sequence of stat values,    *)
(* <<>> being the empty object; an alternate is a <<name, usage>> pair.    *)
(***************************************************************************)
FullIvs == <<31, 31, 31>>

SomeEvs == <<252, 4, 252>>

NoPreset ==
  [calcdexId |-> NULL, source |-> NULL, format |-> NULL, speciesForme |-> NULL,
   playerName |-> NULL, ability |-> NULL, altAbilities |-> <<>>, item |-> NULL,
   altItems |-> <<>>, moves |-> <<>>, altMoves |-> <<>>, teraTypes |-> <<>>,
   nature |-> NULL, ivs |-> <<>>, evs |-> <<>>]

\* a candidate with a full spread
Candidate(id, source, format, forme, ability, item, moves, altMoves) ==
  [NoPreset EXCEPT !.calcdexId = id, !.source = source, !.format = format,
                   !.speciesForme = forme, !.ability = ability, !.item = item,
                   !.moves = moves, !.altMoves = altMoves,
                   !.nature = "Bold", !.ivs = FullIvs, !.evs = SomeEvs]

\* flattenAlts(): the names of a list of alternates
flattenAlts(alts) == [i \in DOMAIN alts |-> alts[i][1]]

\* presets.presets: the general pool, as loaded by useBattlePresets(); the
\* candidate of Smeargle has no id
PoolPresets ==
  << Candidate("G1", "smogon", "ou", "Torkoal", "Drought", "HeatRock",
               <<"LavaPlume", "StealthRock", "RapidSpin", "Yawn">>, <<>>),
     Candidate("G2", "smogon", "ou", "Torkoal", "Drought", "HeatRock",
               <<"Eruption", "LavaPlume", "StealthRock", "Yawn">>, <<>>),
     Candidate("G3", "smogon", "ubers", "Rillaboom", "GrassySurge", "Leftovers",
               <<"WoodHammer", "Uturn">>, <<>>),
     Candidate("G4", "storage", "ou", "Ditto", "Drought", NULL,
               <<"Transform">>, <<>>),
     Candidate(NULL, "smogon", "ou", "Smeargle", "OwnTempo", "FocusSash",
               <<"Spore", "StickyWeb">>, <<>>) >>

\* presets.usages: the statistical-usage pool, by rank; Ferrothorn has two
\* role variants; Torkoal and Ferrothorn have one of the random battles
PoolUsages ==
  << Candidate("U1", "usage", "ou", "Torkoal", "Drought", "HeatRock",
               <<"LavaPlume", "StealthRock", "RapidSpin", "Yawn">>,
               << <<"Eruption", 40>> >>),
     Candidate("U2", "usage", "ou", "Ferrothorn", "IronBarbs", "Leftovers",
               <<"StealthRock", "GyroBall">>, <<>>),
     Candidate("U4", "usage", "ou", "Ferrothorn", "IronBarbs", "RockyHelmet",
               <<"LeechSeed", "Protect", "BodyPress", "PowerWhip">>,
               << <<"StealthRock", 30>>, <<"GyroBall", 20>> >>),
     Candidate("U5", "usage", "ou", "Smeargle", "OwnTempo", "FocusSash",
               <<"Spore", "StickyWeb">>, <<>>),
     Candidate("U6", "usage", "randombattle", "Torkoal", "Drought", "HeatRock",
               <<"LavaPlume", "StealthRock", "RapidSpin", "Yawn">>, <<>>),
     Candidate("U7", "usage", "randombattle", "Ferrothorn", "IronBarbs", "Leftovers",
               <<"StealthRock", "GyroBall">>, <<>>) >>

\* the leaked sheets a battle may receive, wave by wave: a complete sheet of
\* Bob's Torkoal, one of Alice's Torkoal, and an open sheet (no spread)
\* followed by a complete one of Bob's Ferrothorn and by an open sheet of
\* Bob's Unown; the sheet of Bob's Smeargle has no id
SheetOf(id, player, forme, ability, item, moves) ==
  [Candidate(id, "sheet", "ou", forme, ability, item, moves, <<>>)
     EXCEPT !.playerName = player]

OpenSheetOf(id, player, forme, ability, item, moves) ==
  [SheetOf(id, player, forme, ability, item, moves)
     EXCEPT !.nature = NULL, !.ivs = <<>>, !.evs = <<>>]

SheetWaves ==
  { << SheetOf("S1", "B.o.b", "Torkoal", "Drought", "Charcoal",
               <<"Eruption", "LavaPlume", "Yawn", "RapidSpin">>) >>,
    << SheetOf("S2", "Alice", "Torkoal", "WhiteSmoke", "Leftovers",
               <<"Eruption", "Yawn">>),
       SheetOf(NULL, "Bob", "Smeargle", "OwnTempo", "FocusSash",
               <<"Spore", "StickyWeb">>) >>,
    << OpenSheetOf("S3", "Bob", "Ferrothorn", "IronBarbs", "Leftovers",
                   <<"StealthRock", "GyroBall">>),
       SheetOf("S4", "Bob", "Ferrothorn", "IronBarbs", "RockyHelmet",
               <<"StealthRock", "GyroBall">>),
       OpenSheetOf("S5", "Bob", "Unown", "Levitate", "ChoiceSpecs",
                   <<"HiddenPower">>) >> }

(***************************************************************************)
(* Slots ("pokemon").                                                      *)
(***************************************************************************)
\* the observed stats of a server slot: none, stats some spread explains,
\* stats no spread explains
StatsOfSpread == <<341, 157, 76>>

StatsOfNoSpread == <<999, 1, 1>>

NewPokemon(id, forme) ==
  [calcdexId |-> id, speciesForme |-> forme, level |-> 100, source |-> NULL,
   ability |-> NULL, item |-> NULL, dirtyItem |-> NULL,
   moves |-> <<>>, revealedMoves |-> <<>>,
   serverStats |-> <<>>, serverMoves |-> <<>>,
   transformedForme |-> NULL, transformedMoves |-> <<>>,
   presetId |-> NULL, usageId |-> NULL, autoPreset |-> TRUE,
   presets |-> <<>>, nature |-> NULL, ivs |-> <<>>, evs |-> <<>>,
   altAbilities |-> <<>>, altItems |-> <<>>, altMoves |-> <<>>,
   altTeraTypes |-> <<>>, teraType |-> NULL, dirtyTeraType |-> NULL,
   types |-> <<>>, showGenetics |-> FALSE]

\* a slot of the user's own side, as the battle sync fills it
ServerPokemon(id, forme, stats, ability, item, moves) ==
  [NewPokemon(id, forme) EXCEPT !.source = "server", !.serverStats = stats,
                                !.ability = ability, !.item = item,
                                !.serverMoves = moves, !.moves = moves]

Transformed(pokemon, forme, moves) ==
  [pokemon EXCEPT !.transformedForme = forme, !.transformedMoves = moves]

G1Moves == <<"LavaPlume", "StealthRock", "RapidSpin", "Yawn">>

\* a slot all of whose moves were seen in play
Revealed(pokemon, moves) ==
  [pokemon EXCEPT !.revealedMoves = moves, !.moves = moves]

\* four moves no candidate of the pools lists together
SeenMoves == <<"GyroBall", "LeechSeed", "Protect", "BodyPress">>

\* the rosters a side may start with
P1Parties ==
  { << ServerPokemon("p1a", "Torkoal", StatsOfSpread, "Drought", "HeatRock", G1Moves) >>,
    << ServerPokemon("p1a", "Torkoal", StatsOfSpread, "Drought", "Charcoal", G1Moves) >>,
    << ServerPokemon("p1a", "Torkoal", StatsOfNoSpread, "Drought", "Charcoal", G1Moves) >>,
    << ServerPokemon("p1a", "Torkoal", <<>>, "Drought", "HeatRock", G1Moves) >>,
    << Revealed(ServerPokemon("p1a", "Torkoal", StatsOfNoSpread, "Drought",
                              "Charcoal", SeenMoves), SeenMoves) >>,
    << ServerPokemon("p1a", "Torkoal", StatsOfNoSpread, "Drought", "Charcoal", G1Moves),
       NewPokemon("p1b", "Torkoal") >>,
    << Transformed(ServerPokemon("p1a", "Ditto", StatsOfSpread, "Drought", NULL,
                                 <<"Transform">>), "Torkoal", G1Moves) >> }

P2Parties ==
  { << NewPokemon("p2a", "Torkoal") >>,
    << NewPokemon("p2a", "Ferrothorn"), NewPokemon("p2b", "Torkoal") >>,
    << NewPokemon("p2a", "Rillaboom") >>,
    << Transformed(NewPokemon("p2a", "Ditto"), "Torkoal", <<"Eruption">>) >>,
    << NewPokemon("p2a", "Unown"), NewPokemon("p2b", "Torkoal") >>,
    << Revealed(NewPokemon("p2a", "Ferrothorn"), SeenMoves) >>,
    << NewPokemon("p2a", "Smeargle") >>,
    << >> }

\* the moves a slot of a species reveals in play, in the order it reveals them
RevealOrder(forme) ==
  CASE forme = "Torkoal" -> <<"LavaPlume", "Eruption", "StealthRock", "Yawn">>
    [] forme = "Ferrothorn" -> <<"StealthRock", "GyroBall", "LeechSeed", "PowerWhip">>
    [] OTHER -> <<"Tackle", "Rest", "Protect", "Toxic">>

(***************************************************************************)
(* Collaborators of the hook (utilities of @showdex/utils).                *)
(***************************************************************************)
\* the formes a `select` breadth covers for a slot
SelectFormes(pokemon, select) ==
  CASE select = "species" -> {pokemon.speciesForme}
    [] select = "transformed" -> {pokemon.transformedForme} \ {NULL}
    [] select = "one" -> IF pokemon.transformedForme # NULL
                         THEN {pokemon.transformedForme}
                         ELSE {pokemon.speciesForme}
    [] OTHER -> {pokemon.speciesForme, pokemon.transformedForme} \ {NULL}

\* selectPokemonPresets() without its `filter` option, which callers apply
\* to the result (source = NULL: any source)
selectPokemonPresets(pool, pokemon, format, formatOnly, source, select) ==
  SelectSeq(pool, LAMBDA p :
    /\ source = NULL \/ p.source = source
    /\ ~formatOnly \/ p.format = getGenlessFormat(format)
    /\ p.speciesForme \in SelectFormes(pokemon, select))

\* sortPresetsByFormat(): candidates of the battle's format first (stable)
sortPresetsByFormat(list, format) ==
  SelectSeq(list, LAMBDA p : p.format = getGenlessFormat(format))
    \o SelectSeq(list, LAMBDA p : p.format # getGenlessFormat(format))

\* sortPresetsByUsage(): no ranking rule is specified; the order is kept
sortPresetsByUsage(list, usages) == list

\* guessTeambuilderPreset(): the first candidate consistent with what the
\* server told about the slot
guessTeambuilderPreset(list, pokemon, format) ==
  First(SelectSeq(list, LAMBDA p :
          /\ p.ability = pokemon.ability
          /\ p.item = pokemon.item
          /\ p.moves = pokemon.serverMoves), NoPreset)

\* guessMatchingPresets(): the candidates whose pools cover what is known of
\* the slot (ability, item, revealed moves)
guessMatchingPresets(list, pokemon, format) ==
  SelectSeq(list, LAMBDA p :
    /\ pokemon.ability = NULL
         \/ Includes(flattenAlts(p.altAbilities) \o <<p.ability>>, pokemon.ability)
    /\ pokemon.item = NULL
         \/ Includes(flattenAlts(p.altItems) \o <<p.item>>, pokemon.item)
    /\ EveryIn(pokemon.revealedMoves, flattenAlts(p.altMoves) \o p.moves))

\* findMatchingUsage(): the first role variant whose move pool covers the
\* candidate's moves, else the first variant
findMatchingUsage(usages, preset) ==
  First(SelectSeq(usages, LAMBDA u :
          EveryIn(preset.moves, flattenAlts(u.altMoves) \o u.moves)),
        First(usages, NoPreset))

\* guessServerSpread() / guessServerLegacySpread(): <<nature, ivs, evs>> of a
\* spread that explains the observed stats, <<>> when there is none
guessServerSpread(format, pokemon) ==
  IF pokemon.serverStats = StatsOfSpread
  THEN <<"Modest", FullIvs, SomeEvs>> ELSE <<>>

guessServerLegacySpread(format, pokemon) ==
  IF pokemon.serverStats = StatsOfSpread
  THEN <<"Hardy", <<30, 30, 30>>, <<252, 252, 252>>>> ELSE <<>>

\* calcPresetCalcdexId(): a digest of the candidate's semantic fields
calcPresetCalcdexId(p) ==
  ToString(<<p.source, p.format, p.speciesForme, p.playerName, p.ability,
             p.item, p.moves, p.nature, p.ivs, p.evs>>)

\* detectCompletePreset(): the candidate exposes nature, IVs and EVs
detectCompletePreset(p) ==
  /\ p.speciesForme # NULL
  /\ p.nature # NULL
  /\ nonEmptyObject(p.ivs)
  /\ nonEmptyObject(p.evs)

\* populateStatsTable({}, ...): the zero-filled table
populateStatsTable == <<0, 0, 0>>

\* determineWeather() / determineTerrain(): what the slot's ability induces
determineWeather(pokemon, format) ==
  CASE pokemon.ability = "Drought" -> "Sun"
    [] pokemon.ability = "Drizzle" -> "Rain"
    [] OTHER -> NULL

determineTerrain(pokemon) ==
  CASE pokemon.ability = "GrassySurge" -> "Grassy"
    [] OTHER -> NULL

\* {...a, ...b} of two objects: b's fields over a's
Spread(a, b) == [f \in DOMAIN a |-> IF f \in DOMAIN b THEN b[f] ELSE a[f]]

\* `delete patch.field`
Without(patch, field) == [f \in DOMAIN patch \ {field} |-> patch[f]]

\* applyPreset(): the patch that copies a candidate into a slot
applyPreset(pokemon, preset, format, usage) ==
  LET base == [presetId |-> preset.calcdexId,
               ability |-> preset.ability,
               item |-> preset.item,
               moves |-> preset.moves,
               nature |-> preset.nature,
               ivs |-> preset.ivs,
               evs |-> preset.evs,
               teraType |-> First(preset.teraTypes, pokemon.teraType),
               altAbilities |-> flattenAlts(preset.altAbilities),
               altItems |-> flattenAlts(preset.altItems),
               altMoves |-> flattenAlts(preset.altMoves)]
  IN  IF usage.calcdexId # NULL
      THEN [f \in DOMAIN base \cup {"usageId"} |->
              IF f = "usageId" THEN usage.calcdexId ELSE base[f]]
      ELSE base

\* useBattlePresets(): the hook's view of the candidate store
useBattlePresets(ready) ==
  [ready |-> ready,
   presets |-> IF ready THEN PoolPresets ELSE <<>>,
   usages |-> IF ready THEN PoolUsages ELSE <<>>]

(***************************************************************************)
(* The AutoPreset effect: the cascade that resolves one slot.  `st` is the *)
(* battle state the effect closed over, `presets` the hook's pools.        *)
(***************************************************************************)
\* pokemonPresets: the general candidates of the slot, same format first
PokemonPresets(st, presets, pokemon) ==
  LET selected == SelectSeq(
        selectPokemonPresets(presets.presets, pokemon, st.format, FALSE, NULL, "any"),
        LAMBDA p : p.source # "usage")
      sorted == sortPresetsByFormat(selected, st.format)
      usages == selectPokemonPresets(presets.usages, pokemon, st.format, TRUE, "usage", "any")
  IN  IF Len(usages) > 1 THEN sortPresetsByUsage(sorted, usages) ELSE sorted

\* pokemonUsages: the statistical candidates of the slot in the battle's format
PokemonUsages(st, presets, pokemon) ==
  selectPokemonPresets(presets.usages, pokemon, st.format, TRUE, "usage", "any")

\* mergeMatches(): a candidate with the observed ability, item and moves
\* written over its own where its pools hold them
mergeMatches(p, pokemon) ==
  LET abilityPool == flattenAlts(p.altAbilities) \o <<p.ability>>
      itemPool == flattenAlts(p.altItems) \o <<p.item>>
      movePool == flattenAlts(p.altMoves) \o p.moves
  IN  [p EXCEPT
         !.ability = IF Includes(abilityPool, pokemon.ability) THEN pokemon.ability ELSE @,
         !.item = IF Includes(itemPool, pokemon.item) THEN pokemon.item ELSE @,
         !.moves = IF EveryIn(pokemon.serverMoves, movePool) THEN pokemon.serverMoves ELSE @]

\* whether the server block applies to the slot
IsServerSourced(pokemon) ==
  pokemon.source = "server" /\ nonEmptyObject(pokemon.serverStats)

\* what the cascade holds of a slot as it starts: the slot (a clone), its
\* candidates, and no candidate chosen yet
StartOfSlot(st, presets, player, pokemon) ==
  [player |-> player,
   pokemon |-> pokemon,
   pokemonPresets |-> PokemonPresets(st, presets, pokemon),
   pokemonUsages |-> PokemonUsages(st, presets, pokemon),
   usage |-> First(PokemonUsages(st, presets, pokemon), NoPreset),
   preset |-> NoPreset,
   stage |-> 0]

\* guessTeambuilderPreset() over the slot's candidates of its own forme
FoundServerPreset(st, c) ==
  LET species == selectPokemonPresets(c.pokemonPresets, c.pokemon, st.format,
                                      FALSE, NULL, "species")
  IN  guessTeambuilderPreset([i \in DOMAIN species |-> mergeMatches(species[i], c.pokemon)],
                             c.pokemon, st.format)

\* the copy of a found candidate, marked as the server's
StampedPreset(c, found) ==
  [found EXCEPT !.playerName = c.player.name,
                !.source = "server",
                !.ability = c.pokemon.ability,
                !.item = c.pokemon.item,
                !.moves = FilterBoolean(c.pokemon.serverMoves),
                !.teraTypes = IF c.pokemon.teraType # NULL
                              THEN <<c.pokemon.teraType>> ELSE @]

\* stage 1: a general candidate consistent with the observation, copied and
\* stamped as the server's
ServerPreset(st, c) ==
  IF IsServerSourced(c.pokemon)
  THEN CHOOSE next \in
         { IF found.calcdexId # NULL
           THEN [c EXCEPT !.preset = StampedPreset(c, found), !.stage = 1]
           ELSE [c EXCEPT !.preset = found] :
           found \in {FoundServerPreset(st, c)} } : TRUE
  ELSE c

\* the candidate synthesized from a guessed spread
MadePreset(st, c, guessedSpread) ==
  [NoPreset EXCEPT
     !.source = "server",
     !.playerName = c.player.name,
     !.format = getGenlessFormat(st.format),
     !.speciesForme = c.pokemon.speciesForme,
     !.teraTypes = FilterBoolean(<<c.pokemon.teraType>>),
     !.ability = c.pokemon.ability,
     !.item = c.pokemon.item,
     !.moves = FilterBoolean(c.pokemon.serverMoves),
     !.nature = guessedSpread[1],
     !.ivs = guessedSpread[2],
     !.evs = guessedSpread[3]]

\* stage 2 ("old reliable"): a candidate synthesized from a guessed spread
GuessedPreset(st, c) ==
  IF /\ IsServerSourced(c.pokemon)
     /\ c.preset.calcdexId = NULL
     /\ c.pokemon.transformedForme = NULL
  THEN CHOOSE next \in
         { IF nonEmptyObject(guessedSpread)
           THEN [c EXCEPT
                   !.preset = [MadePreset(st, c, guessedSpread) EXCEPT
                                 !.calcdexId = calcPresetCalcdexId(MadePreset(st, c, guessedSpread))],
                   !.stage = 2]
           ELSE c :
           guessedSpread \in { IF st.legacy
                               THEN guessServerLegacySpread(st.format, c.pokemon)
                               ELSE guessServerSpread(st.format, c.pokemon) } } : TRUE
  ELSE c

\* the server's candidate put in front of the slot's presets whatever they hold
AddServerPresetAlways(c) ==
  IF /\ IsServerSourced(c.pokemon)
     /\ c.preset.calcdexId # NULL
  THEN [c EXCEPT !.pokemon.presets = <<c.preset>> \o @]
  ELSE c

\* shouldAddServerPreset: the server's candidate goes to the front of the
\* slot's presets unless a server-sourced one is there already
AddServerPreset(c) ==
  IF /\ IsServerSourced(c.pokemon)
     /\ c.preset.calcdexId # NULL
     /\ ~\E i \in DOMAIN c.pokemon.presets : c.pokemon.presets[i].source = "server"
  THEN [c EXCEPT !.pokemon.presets = <<c.preset>> \o @]
  ELSE c

\* the candidates of the transformed forme that cover the transformed moves
TransformedMatches(st, c) ==
  SelectSeq(selectPokemonPresets(c.pokemonPresets, c.pokemon, st.format,
                                 FALSE, NULL, "transformed"),
            LAMBDA p : EveryIn(c.pokemon.transformedMoves,
                               flattenAlts(p.altMoves) \o p.moves))

\* stage 3 keeping what stages 1 and 2 chose
TransformedPresetKeeping(st, c) ==
  IF /\ IsServerSourced(c.pokemon)
     /\ c.pokemon.transformedForme # NULL
     /\ c.preset.calcdexId = NULL
  THEN IF c.pokemon.transformedMoves # <<>> /\ TransformedMatches(st, c) # <<>>
       THEN [c EXCEPT !.preset = Head(TransformedMatches(st, c)), !.stage = 3]
       ELSE [c EXCEPT !.preset = NoPreset, !.stage = 0]
  ELSE c

\* stage 3: a transformed slot drops a candidate of another forme for one
\* of the transformed forme that covers the transformed moves
TransformedPreset(st, c) ==
  IF /\ IsServerSourced(c.pokemon)
     /\ c.pokemon.transformedForme # NULL
     /\ \/ c.preset.speciesForme = NULL
        \/ c.preset.speciesForme # c.pokemon.transformedForme
  THEN IF c.pokemon.transformedMoves # <<>> /\ TransformedMatches(st, c) # <<>>
       THEN [c EXCEPT !.preset = Head(TransformedMatches(st, c)), !.stage = 3]
       ELSE [c EXCEPT !.preset = NoPreset, !.stage = 0]
  ELSE c

\* the server block: stages 1-3 in order
ServerBlock(st, c) ==
  CHOOSE next \in
    { TransformedPreset(st, c2b) :
      c2b \in { AddServerPreset(c2) :
      c2 \in { GuessedPreset(st, c1) :
      c1 \in {ServerPreset(st, c)} } } } : TRUE

\* the sheets a slot may take in stage 4
SheetFilter(player, pokemon, p) ==
  pokemon.transformedForme = NULL \/ formatId(p.playerName) = formatId(player.name)

\* the first leaked sheet of the slot
FirstSheet(st, c) ==
  First(SelectSeq(
          selectPokemonPresets(st.sheets, c.pokemon, st.format, FALSE, "sheet", "any"),
          LAMBDA p : SheetFilter(c.player, c.pokemon, p)), NoPreset)

\* stage 4 taking the first leaked sheet whatever it exposes
SheetPresetUnchecked(st, c) ==
  IF c.preset.calcdexId = NULL /\ st.sheets # <<>>
  THEN CHOOSE next \in
         { [c EXCEPT !.preset = sheet,
                     !.stage = IF sheet.calcdexId # NULL THEN 4 ELSE 0] :
           sheet \in {FirstSheet(st, c)} } : TRUE
  ELSE c

\* stage 4: the first leaked sheet of the slot, unless it is an open sheet
SheetPreset(st, c) ==
  IF c.preset.calcdexId = NULL /\ st.sheets # <<>>
  THEN CHOOSE next \in
         { IF detectCompletePreset(sheet)
           THEN [c EXCEPT !.preset = sheet,
                          !.stage = IF sheet.calcdexId # NULL THEN 4 ELSE 0]
           ELSE [c EXCEPT !.preset = NoPreset, !.stage = 0] :
           sheet \in {FirstSheet(st, c)} } : TRUE
  ELSE c

\* the structural match that leaves the slot's autoPreset as it is
MatchedPresetAutoKept(st, c, list, stage) ==
  CHOOSE next \in
    { IF list # <<>> /\ matchedPresets # <<>> /\ Head(matchedPresets).calcdexId # NULL
      THEN [c EXCEPT !.preset = Head(matchedPresets), !.stage = stage]
      ELSE [c EXCEPT !.preset = First(list, NoPreset),
                     !.stage = IF First(list, NoPreset).calcdexId # NULL
                               THEN stage ELSE 0] :
      matchedPresets \in {guessMatchingPresets(list, c.pokemon, st.format)} } : TRUE

\* the structural match over a list of general candidates (stages 5 and 7):
\* the best match, else the top-ranked candidate; autoPreset is turned off
\* when the match is the only one
MatchedPreset(st, c, list, stage) ==
  CHOOSE next \in
    { IF list # <<>> /\ matchedPresets # <<>> /\ Head(matchedPresets).calcdexId # NULL
      THEN [c EXCEPT !.preset = Head(matchedPresets),
                     !.pokemon.autoPreset = (Len(matchedPresets) # 1),
                     !.stage = stage]
      ELSE [c EXCEPT !.preset = First(list, NoPreset),
                     !.stage = IF First(list, NoPreset).calcdexId # NULL
                               THEN stage ELSE 0] :
      matchedPresets \in {guessMatchingPresets(list, c.pokemon, st.format)} } : TRUE

\* stage 5: a general candidate of the battle's format
FormatPreset(st, c) ==
  MatchedPreset(st, c,
    selectPokemonPresets(c.pokemonPresets, c.pokemon, st.format, TRUE, NULL, "one"), 5)

\* shouldApplyUsage without the test of the format
shouldApplyUsageInRandoms(st, settings, c) ==
  /\ c.usage.calcdexId # NULL
  /\ \/ c.preset.calcdexId = NULL
     \/ settings.prioritizeUsageStats /\ c.preset.source # "server"

\* shouldApplyUsage
shouldApplyUsage(st, settings, c) ==
  /\ ~IsRandoms(st.format)
  /\ c.usage.calcdexId # NULL
  /\ \/ c.preset.calcdexId = NULL
     \/ settings.prioritizeUsageStats /\ c.preset.source # "server"

\* stage 6 without the prioritizeUsageStats setting: the statistical
\* candidate only when nothing is chosen
UsagePresetUnprioritized(st, settings, c) ==
  IF ~IsRandoms(st.format) /\ c.usage.calcdexId # NULL /\ c.preset.calcdexId = NULL
  THEN [c EXCEPT !.preset = c.usage, !.stage = 6]
  ELSE c

\* stage 6: the statistical candidate instead of the general one
UsagePreset(st, settings, c) ==
  IF shouldApplyUsage(st, settings, c)
  THEN [c EXCEPT !.preset = c.usage, !.stage = 6]
  ELSE c

\* stage 7 run whatever stages 5 and 6 chose
AnyFormatPresetUnguarded(st, c) ==
  MatchedPreset(st, c,
    selectPokemonPresets(c.pokemonPresets, c.pokemon, st.format, FALSE, NULL, "one"), 7)

\* stage 7: a general candidate of any format
AnyFormatPreset(st, c) ==
  IF c.preset.calcdexId = NULL
  THEN MatchedPreset(st, c,
         selectPokemonPresets(c.pokemonPresets, c.pokemon, st.format, FALSE, NULL, "one"), 7)
  ELSE c

\* stages 5-7 entered whatever the earlier stages chose (the guard on the
\* candidate chosen so far left out)
FormatBlockUnguarded(st, settings, c) ==
  IF c.pokemonPresets # <<>>
  THEN CHOOSE next \in
         { AnyFormatPreset(st, c6) :
             c6 \in { UsagePreset(st, settings, c5) :
                        c5 \in {FormatPreset(st, c)} } } : TRUE
  ELSE c

\* stages 5-7, entered without a candidate when the slot has general ones
FormatBlock(st, settings, c) ==
  IF c.preset.calcdexId = NULL /\ c.pokemonPresets # <<>>
  THEN CHOOSE next \in
         { AnyFormatPreset(st, c6) :
             c6 \in { UsagePreset(st, settings, c5) :
                        c5 \in {FormatPreset(st, c)} } } : TRUE
  ELSE c

\* the cascade without stage 8
UsageFallbackSkipped(c) == c

\* stage 8 taking a statistical candidate other than the one the slot has,
\* and leaving the slot auto-assigned
UsageFallbackAlternating(c) ==
  IF c.preset.calcdexId = NULL /\ c.usage.calcdexId # NULL
  THEN [c EXCEPT !.preset = First(SelectSeq(c.pokemonUsages,
                                            LAMBDA u : u.calcdexId # c.pokemon.presetId),
                                  c.usage),
                 !.stage = 8]
  ELSE c

\* stage 8: the statistical candidate alone
UsageFallback(c) ==
  IF c.preset.calcdexId = NULL /\ c.usage.calcdexId # NULL
  THEN [c EXCEPT !.preset = c.usage, !.pokemon.autoPreset = FALSE, !.stage = 8]
  ELSE c

\* the nature given without regard to the legacy flag
FallbackNatureAnyGen(st) == "Adamant"

\* the nature a slot without a candidate is given
FallbackNature(st) == IF st.legacy THEN "Hardy" ELSE "Adamant"

\* the reset of stage 9 without the opening of the slot's stats
TerminalFallbackSilent(st, pokemon) ==
  [pokemon EXCEPT
     !.nature = FallbackNature(st),
     !.ivs = populateStatsTable,
     !.evs = populateStatsTable,
     !.altTeraTypes = <<>>,
     !.altAbilities = <<>>,
     !.altItems = <<>>,
     !.dirtyItem = NULL,
     !.altMoves = <<>>,
     !.moves = <<>>,
     !.autoPreset = FALSE]

\* the reset of stage 9 that empties the revealed moves with the moves
TerminalFallbackForgetting(st, pokemon) ==
  [pokemon EXCEPT
     !.level = IF @ = 0 /\ st.defaultLevel # 0 THEN st.defaultLevel ELSE @,
     !.nature = FallbackNature(st),
     !.ivs = populateStatsTable,
     !.evs = populateStatsTable,
     !.altTeraTypes = <<>>,
     !.altAbilities = <<>>,
     !.altItems = <<>>,
     !.dirtyItem = NULL,
     !.altMoves = <<>>,
     !.moves = <<>>,
     !.revealedMoves = <<>>,
     !.dirtyTeraType = IF @ # NULL /\ pokemon.types # <<>> THEN pokemon.types[1] ELSE @,
     !.showGenetics = TRUE,
     !.autoPreset = FALSE]

\* stage 9: no candidate; the slot is reset and its stats are opened
TerminalFallback(st, pokemon) ==
  [pokemon EXCEPT
     !.level = IF @ = 0 /\ st.defaultLevel # 0 THEN st.defaultLevel ELSE @,
     !.nature = FallbackNature(st),
     !.ivs = populateStatsTable,
     !.evs = populateStatsTable,
     !.altTeraTypes = <<>>,
     !.altAbilities = <<>>,
     !.altItems = <<>>,
     !.dirtyItem = NULL,
     !.altMoves = <<>>,
     !.moves = <<>>,
     !.dirtyTeraType = IF @ # NULL /\ pokemon.types # <<>> THEN pokemon.types[1] ELSE @,
     !.showGenetics = TRUE,
     !.autoPreset = FALSE]

\* the statistical candidate that goes with the chosen one: with several
\* role variants, the one matching the chosen candidate
RoleUsage(c) ==
  IF Len(c.pokemonUsages) > 1
  THEN CHOOSE next \in
         { IF roleUsage.calcdexId # NULL THEN [c EXCEPT !.usage = roleUsage] ELSE c :
           roleUsage \in {findMatchingUsage(c.pokemonUsages, c.preset)} } : TRUE
  ELSE c

\* whether the chosen candidate is applied to the slot
ShouldApplyPreset(pokemon, preset, usage) ==
  /\ pokemon.presetId # preset.calcdexId
  /\ usage.calcdexId = NULL \/ pokemon.usageId # usage.calcdexId

\* the patch of applyPreset(), without its moves when the slot is not the
\* server's and has revealed all its moves
TrimmedPayload(pokemon, payload) ==
  IF /\ "moves" \in DOMAIN payload
     /\ pokemon.source # "server"
     /\ Len(pokemon.revealedMoves) = MaxMoves
  THEN Without(payload, "moves")
  ELSE payload

\* presetPayload
PresetPayload(st, c) ==
  IF ShouldApplyPreset(c.pokemon, c.preset, c.usage)
  THEN TrimmedPayload(c.pokemon, applyPreset(c.pokemon, c.preset, st.format, c.usage))
  ELSE <<>>

\* the end of the cascade: the terminal fallback, or the merge
Outcome(st, c) ==
  IF c.preset.calcdexId = NULL
  THEN [pokemon |-> TerminalFallback(st, c.pokemon), preset |-> c.preset,
        usage |-> c.usage, stage |-> 9, applied |-> FALSE]
  ELSE CHOOSE out \in
         { [pokemon |-> Spread(r.pokemon, payload), preset |-> r.preset,
            usage |-> r.usage, stage |-> r.stage, applied |-> payload # <<>>] :
           <<r, payload>> \in { <<u, PresetPayload(st, u)>> : u \in {RoleUsage(c)} } } : TRUE

\* one iteration of presetlessIndices.forEach(): the slot as it is left in
\* the party, with what the cascade chose for it
ResolveSlot(st, presets, settings, player, pokemon) ==
  CHOOSE out \in
    { Outcome(st, c8) :
      c8 \in { UsageFallback(c7) :
      c7 \in { FormatBlock(st, settings, c4) :
      c4 \in { SheetPreset(st, c3) :
      c3 \in { ServerBlock(st, c0) :
      c0 \in {StartOfSlot(st, presets, player, pokemon)} } } } } } : TRUE

(***************************************************************************)
(* The AutoPreset effect as a whole.                                       *)
(***************************************************************************)
HasPokemon(st) ==
  \E k \in DOMAIN AllPlayerKeys : st[AllPlayerKeys[k]].pokemon # <<>>

shouldAutoPreset(st, presets) ==
  /\ st.battleId # NULL
  /\ st.format # NULL
  /\ presets.ready
  /\ HasPokemon(st)

\* presetlessIndices taking every slot
IsPresetlessAlways(pokemon) == TRUE

\* presetlessIndices: the slots without a preset of their own
IsPresetless(pokemon) == ~(pokemon.presetId # NULL /\ ~pokemon.autoPreset)

PresetlessIndices(player) ==
  { i \in DOMAIN player.pokemon : IsPresetless(player.pokemon[i]) }

\* the players the effect puts in its payload
AutoPlayers(st) ==
  { key \in Range(AllPlayerKeys) :
      st[key].pokemon # <<>> /\ PresetlessIndices(st[key]) # {} }

\* the loop over the slots given up as soon as one slot is reset
AutoOutcomesAborting(st, presets, settings) ==
  LET all == { [key |-> s[1], index |-> s[2],
                out |-> ResolveSlot(st, presets, settings, st[s[1]],
                                    st[s[1]].pokemon[s[2]])] :
               s \in UNION { { <<key, i>> : i \in PresetlessIndices(st[key]) } :
                             key \in AutoPlayers(st) } }
  IN  IF \E o \in all : o.out.stage = 9
      THEN { o \in all : o.out.stage = 9 }
      ELSE all

\* what the cascade leaves of each presetless slot
AutoOutcomes(st, presets, settings) ==
  { [key |-> s[1], index |-> s[2],
     out |-> ResolveSlot(st, presets, settings, st[s[1]], st[s[1]].pokemon[s[2]])] :
    s \in UNION { { <<key, i>> : i \in PresetlessIndices(st[key]) } :
                  key \in AutoPlayers(st) } }

\* the party of a player after the loop over its slots
PartyOf(st, outcomes, key) ==
  [i \in DOMAIN st[key].pokemon |->
     IF \E o \in outcomes : o.key = key /\ o.index = i
     THEN (CHOOSE o \in outcomes : o.key = key /\ o.index = i).out.pokemon
     ELSE st[key].pokemon[i]]

\* the induced field entries without the reset of the user's overrides
InducedFieldKeepingDirty(st, resolved) ==
  LET weather == IF determineWeather(resolved, st.format) # NULL
                 THEN [autoWeather |-> determineWeather(resolved, st.format)]
                 ELSE <<>>
      terrain == IF determineTerrain(resolved) # NULL
                 THEN [autoTerrain |-> determineTerrain(resolved)]
                 ELSE <<>>
  IN  [f \in DOMAIN weather \cup DOMAIN terrain |->
         IF f \in DOMAIN weather THEN weather[f] ELSE terrain[f]]

\* the field entries a resolved active slot induces
InducedField(st, resolved) ==
  LET weather == IF determineWeather(resolved, st.format) # NULL
                 THEN [dirtyWeather |-> NULL,
                       autoWeather |-> determineWeather(resolved, st.format)]
                 ELSE <<>>
      terrain == IF determineTerrain(resolved) # NULL
                 THEN [dirtyTerrain |-> NULL,
                       autoTerrain |-> determineTerrain(resolved)]
                 ELSE <<>>
  IN  [f \in DOMAIN weather \cup DOMAIN terrain |->
         IF f \in DOMAIN weather THEN weather[f] ELSE terrain[f]]

\* the field patch the active slot of a player adds, when the cascade
\* merged a candidate into it
FieldEffects(st, outcomes, key) ==
  LET active == { o \in outcomes :
                    /\ o.key = key
                    /\ o.index = st[key].selectionIndex + 1
                    /\ o.out.stage # 9 }
  IN  IF active = {} THEN <<>>
      ELSE InducedField(st, (CHOOSE o \in active : TRUE).out.pokemon)

\* the `field` object after the loop over the first n players
RECURSIVE AutoField(_, _, _)
AutoField(st, outcomes, n) ==
  IF n = 0 THEN <<>>
  ELSE CHOOSE merged \in
         { [f \in DOMAIN before \cup DOMAIN mine |->
              IF f \in DOMAIN mine THEN mine[f] ELSE before[f]] :
           <<before, mine>> \in { <<AutoField(st, outcomes, n - 1),
                                    FieldEffects(st, outcomes, AllPlayerKeys[n])>> } } : TRUE

\* what an effect that does not run does
NoEffect ==
  [dispatched |-> FALSE, players |-> <<>>, field |-> <<>>, outcomes |-> {}]

\* the effect's dispatch, from the outcomes of its slots
AutoDispatch(st, outcomes) ==
  [dispatched |-> AutoPlayers(st) # {},
   players |-> [key \in AutoPlayers(st) |-> PartyOf(st, outcomes, key)],
   field |-> AutoField(st, outcomes, Len(AllPlayerKeys)),
   outcomes |-> outcomes]

\* the effect: whether it dispatches, and what
AutoPresetEffect(st, presets, settings) ==
  IF shouldAutoPreset(st, presets)
  THEN CHOOSE e \in { AutoDispatch(st, outcomes) :
                      outcomes \in {AutoOutcomes(st, presets, settings)} } : TRUE
  ELSE NoEffect

\* calcdexSlice.actions.update / updatePlayer: the reducer writes the
\* payload's parties and field entries over the store's
Reduce(store, players, field) ==
  [f \in DOMAIN store |->
     IF f \in DOMAIN players THEN [store[f] EXCEPT !.pokemon = players[f]]
     ELSE IF f = "field" THEN Spread(store.field, field)
     ELSE store[f]]

(***************************************************************************)
(* The Sheets effect: leaked sheets applied to the slots that are not the  *)
(* server's, once.                                                         *)
(***************************************************************************)
\* shouldApplySheets without the latch
shouldApplySheetsUnlatched(applied, st) ==
  /\ st.battleId # NULL
  /\ st.format # NULL
  /\ st.sheetsNonce # 0
  /\ st.sheets # <<>>
  /\ HasPokemon(st)

shouldApplySheets(applied, st) ==
  /\ ~applied
  /\ st.battleId # NULL
  /\ st.format # NULL
  /\ st.sheetsNonce # 0
  /\ st.sheets # <<>>
  /\ HasPokemon(st)

\* the indices of a party, the server's slots included
AllIndices(player) == DOMAIN player.pokemon

NonServerIndices(player) ==
  { i \in DOMAIN player.pokemon : player.pokemon[i].source # "server" }

\* the sheets a slot may take in the Sheets effect
LateSheetFilter(player, pokemon, p) ==
  pokemon.transformedForme # NULL \/ formatId(p.playerName) = formatId(player.name)

\* the sheet of a slot (without an id when it has none)
SheetOfSlot(st, player, pokemon) ==
  First(SelectSeq(
          selectPokemonPresets(st.sheets, pokemon, st.format, FALSE, "sheet", "one"),
          LAMBDA p : LateSheetFilter(player, pokemon, p)), NoPreset)

\* the statistical candidate that goes with a sheet
SheetUsage(st, presets, pokemon, sheet) ==
  LET pokemonUsages ==
        selectPokemonPresets(presets.usages, pokemon, st.format, TRUE, "usage", "one")
      covering == SelectSeq(pokemonUsages, LAMBDA p :
                    EveryIn(sheet.moves, flattenAlts(p.altMoves)))
  IN  IF Len(pokemonUsages) > 1 /\ covering # <<>>
      THEN Head(covering)
      ELSE First(pokemonUsages, NoPreset)

\* the Sheets effect applying whatever sheet it found, with or without an id
ApplySheetUnguarded(st, presets, player, pokemon) ==
  CHOOSE out \in
    { IF sheet.speciesForme = NULL
      THEN [pokemon |-> pokemon, preset |-> sheet, usage |-> NoPreset,
            stage |-> 0, applied |-> FALSE]
      ELSE CHOOSE o \in
             { [pokemon |-> Spread(pokemon, applyPreset(pokemon, sheet, st.format, usage)),
                preset |-> sheet, usage |-> usage, stage |-> 4, applied |-> TRUE] :
               usage \in {SheetUsage(st, presets, pokemon, sheet)} } : TRUE :
      sheet \in {SheetOfSlot(st, player, pokemon)} } : TRUE

\* one iteration of nonServerIndices.forEach()
ApplySheet(st, presets, player, pokemon) ==
  CHOOSE out \in
    { IF sheet.calcdexId = NULL
      THEN [pokemon |-> pokemon, preset |-> sheet, usage |-> NoPreset,
            stage |-> 0, applied |-> FALSE]
      ELSE CHOOSE o \in
             { [pokemon |-> Spread(pokemon, applyPreset(pokemon, sheet, st.format, usage)),
                preset |-> sheet, usage |-> usage, stage |-> 4, applied |-> TRUE] :
               usage \in {SheetUsage(st, presets, pokemon, sheet)} } : TRUE :
      sheet \in {SheetOfSlot(st, player, pokemon)} } : TRUE

SheetOutcomes(st, presets) ==
  { [key |-> s[1], index |-> s[2],
     out |-> ApplySheet(st, presets, st[s[1]], st[s[1]].pokemon[s[2]])] :
    s \in UNION { { <<key, i>> : i \in NonServerIndices(st[key]) } :
                  key \in Range(AllPlayerKeys) } }

\* the players with didUpdate set
SheetPlayers(outcomes) == { o.key : o \in { u \in outcomes : u.out.applied } }

\* the dispatch of an effect that commits whatever its slots gave
SheetsDispatchOfAny(st, outcomes) ==
  [dispatched |-> TRUE,
   players |-> [key \in SheetPlayers(outcomes) |-> PartyOf(st, outcomes, key)],
   field |-> <<>>,
   outcomes |-> outcomes]

\* the effect's dispatch, from the outcomes of its slots
SheetsDispatch(st, outcomes) ==
  [dispatched |-> SheetPlayers(outcomes) # {},
   players |-> [key \in SheetPlayers(outcomes) |-> PartyOf(st, outcomes, key)],
   field |-> <<>>,
   outcomes |-> outcomes]

\* the effect: whether it dispatches, and what
SheetsEffect(applied, st, presets) ==
  IF shouldApplySheets(applied, st)
  THEN CHOOSE e \in { SheetsDispatch(st, outcomes) :
                      outcomes \in {SheetOutcomes(st, presets)} } : TRUE
  ELSE NoEffect

(***************************************************************************)
(* The fingerprints the effects depend on.                                 *)
(***************************************************************************)
\* Array.prototype.join() over strings
RECURSIVE join(_, _)
join(seq, sep) ==
  IF seq = <<>> THEN ""
  ELSE IF Len(seq) = 1 THEN seq[1]
  ELSE seq[1] \o sep \o join(Tail(seq), sep)

\* a fingerprint with an entry for every slot, its presetId when it is not
\* auto-assigned
playerAutoNonceOfAll(player) ==
  LET slots == SelectSeq(player.pokemon, LAMBDA p : p.calcdexId # NULL)
  IN  join([i \in DOMAIN slots |->
              join(FilterBoolean(
                     << slots[i].calcdexId,
                        IF slots[i].autoPreset
                        THEN join(<< IF slots[i].ability # NULL THEN slots[i].ability ELSE "?",
                                     IF slots[i].item # NULL THEN slots[i].item ELSE "?",
                                     ToString(Len(slots[i].revealedMoves)) >>, ",")
                        ELSE slots[i].presetId >>), "~")], ":")

\* a fingerprint made of the identities of the presetless slots alone
playerAutoNonceOfIds(player) ==
  LET slots == SelectSeq(player.pokemon, LAMBDA p :
                 p.calcdexId # NULL /\ (p.presetId = NULL \/ p.autoPreset))
  IN  join([i \in DOMAIN slots |-> slots[i].calcdexId], ":")

\* playerAutoNonce() of a player in a battle (operatingMode is not
\* 'standalone'): the string made of one entry per presetless slot
playerAutoNonce(player) ==
  LET slots == SelectSeq(player.pokemon, LAMBDA p :
                 p.calcdexId # NULL /\ (p.presetId = NULL \/ p.autoPreset))
  IN  join([i \in DOMAIN slots |->
              join(FilterBoolean(
                     << slots[i].calcdexId,
                        IF slots[i].autoPreset
                        THEN join(<< IF slots[i].ability # NULL THEN slots[i].ability ELSE "?",
                                     IF slots[i].item # NULL THEN slots[i].item ELSE "?",
                                     ToString(Len(slots[i].revealedMoves)) >>, ",")
                        ELSE slots[i].presetId >>), "~")], ":")

\* the dependency list of the AutoPreset effect
AutoDeps(st, presets) ==
  << [k \in DOMAIN AllPlayerKeys |-> playerAutoNonce(st[AllPlayerKeys[k]])],
     presets.ready, st.battleId, st.format >>

\* the dependency list of the Sheets effect
SheetsDeps(st) ==
  << st.battleId, st.format, Len(st.sheets), st.sheetsNonce,
     [k \in DOMAIN AllPlayerKeys |-> Len(st[AllPlayerKeys[k]].pokemon)] >>

(***************************************************************************)
(* importPokePaste(): the move lines of a paste, read one line at a time   *)
(* into the moves and the altMoves of the candidate it returns.            *)
(***************************************************************************)
\* how many move lines a paste holds
MaxLines == 5

\* maxPresetMoves
maxPresetMoves == 4

\* the moves a line may name, as written: one move written in two ways, and
\* a name the dex does not know
MoveTexts ==
  {"Volt Switch", "volt switch", "Surf", "Volt Tackle", "Thunderbolt", "Pika Pika"}

\* the move lines: detectedMove1, and detectedMove2 and detectedMove3 if any
MoveLines ==
  { <<a>> : a \in MoveTexts }
    \cup { <<a, b>> : a \in MoveTexts, b \in MoveTexts }
    \cup { <<a, b, c>> : a \in MoveTexts, b \in {"Surf", "Pika Pika"},
                         c \in {"Volt Switch", "Thunderbolt"} }

\* dex.moves.get(): the move of an id
DexMove(id) ==
  CASE id = "voltswitch" -> [exists |-> TRUE, name |-> "Volt Switch"]
    [] id = "surf" -> [exists |-> TRUE, name |-> "Surf"]
    [] id = "volttackle" -> [exists |-> TRUE, name |-> "Volt Tackle"]
    [] id = "thunderbolt" -> [exists |-> TRUE, name |-> "Thunderbolt"]
    [] OTHER -> [exists |-> FALSE, name |-> NULL]

\* dexMoveNames: the names of the moves of a line that the dex knows
dexMoveNames(line) ==
  LET dexMoves == SelectSeq([i \in DOMAIN line |-> DexMove(formatId(line[i]))],
                            LAMBDA m : m.exists /\ m.name # NULL)
  IN  [i \in DOMAIN dexMoves |-> dexMoves[i].name]

\* the loop over a line's moves pushing each move wherever it goes
RECURSIVE PushMovesUnchecked(_, _, _)
PushMovesUnchecked(preset, names, addedToMoves) ==
  IF names = <<>>
  THEN preset
  ELSE IF addedToMoves \/ Len(preset.moves) + 1 > maxPresetMoves
       THEN PushMovesUnchecked([preset EXCEPT !.altMoves = Append(@, Head(names))],
                               Tail(names), TRUE)
       ELSE PushMovesUnchecked([preset EXCEPT !.moves = Append(@, Head(names))],
                               Tail(names), TRUE)

\* the loop over a line's moves: movesSource is altMoves once a move of the
\* line went in or moves is full, and a move movesSource holds is passed over
RECURSIVE PushMoves(_, _, _)
PushMoves(preset, names, addedToMoves) ==
  IF names = <<>>
  THEN preset
  ELSE IF addedToMoves \/ Len(preset.moves) + 1 > maxPresetMoves
       THEN IF Includes(preset.altMoves, Head(names))
            THEN PushMoves(preset, Tail(names), addedToMoves)
            ELSE PushMoves([preset EXCEPT !.altMoves = Append(@, Head(names))],
                           Tail(names), TRUE)
       ELSE IF Includes(preset.moves, Head(names))
            THEN PushMoves(preset, Tail(names), addedToMoves)
            ELSE PushMoves([preset EXCEPT !.moves = Append(@, Head(names))],
                           Tail(names), TRUE)

\* case 'moves' with every move pushed
MoveLineReadUnchecked(preset, line) ==
  IF dexMoveNames(line) = <<>>
  THEN preset
  ELSE PushMovesUnchecked(preset, dexMoveNames(line), FALSE)

\* case 'moves': what a move line makes of the candidate
MoveLineRead(preset, line) ==
  IF dexMoveNames(line) = <<>>
  THEN preset
  ELSE PushMoves(preset, dexMoveNames(line), FALSE)

\* the candidate as importPokePaste() starts, no line read
NoPaste ==
  [preset |-> [moves |-> <<>>, altMoves |-> <<>>],
   line |-> <<>>,
   before |-> [moves |-> <<>>, altMoves |-> <<>>],
   lines |-> 0]

(***************************************************************************)
(* buildAbilityOptions(): the groups of the abilities dropdown of a slot.  *)
(***************************************************************************)
\* BattleAbilities: the names of the abilities of the dex, in the order
\* Array.prototype.sort() gives them
BattleAbilities == <<"Drought", "Imposter", "Limber", "No Ability", "Trace">>

\* the place of a name in the order of sort()
SortRank(name) == CHOOSE i \in DOMAIN BattleAbilities : BattleAbilities[i] = name

\* Array.prototype.sort() of a list of names
RECURSIVE SortNames(_)
SortNames(seq) ==
  IF seq = <<>> THEN <<>>
  ELSE LET least == CHOOSE i \in DOMAIN seq :
                      \A j \in DOMAIN seq : SortRank(seq[i]) <= SortRank(seq[j])
       IN  <<seq[least]>>
             \o SortNames(SubSeq(seq, 1, least - 1) \o SubSeq(seq, least + 1, Len(seq)))

\* Array.from(new Set(list)): the list without the later copies of a name
Unique(seq) ==
  SelectSeq([i \in DOMAIN seq |->
               IF \E j \in 1 .. (i - 1) : seq[j] = seq[i] THEN NULL ELSE seq[i]],
            LAMBDA n : n # NULL)

\* detectGenFromFormat()
detectGenFromFormat(format) ==
  CASE format = "gen1ou" -> 1
    [] format = "gen9ou" -> 9
    [] format = "gen9balancedhackmons" -> 9
    [] OTHER -> 0

\* detectLegacyGen(): the gens without abilities
detectLegacyGen(gen) == gen \in 1 .. 2

\* format.replace(/^gen\d+/i, '')
parsedFormat(format) == getGenlessFormat(format)

\* LegalLockedFormats
LegalLockedFormats == <<"ou", "ubers">>

\* an option group
OptionGroup(label, names) == [label |-> label, options |-> names]

\* the 'Transformed' group: the slot's ability if the server told it and
\* the transformedAbilities, without the legal abilities
TransformedOptions(pokemon) ==
  SortNames(SelectSeq(
    Unique(<<IF pokemon.serverSourced THEN pokemon.ability ELSE NULL>>
             \o pokemon.transformedAbilities),
    LAMBDA n : n # NULL /\ ~Includes(pokemon.abilities, n)))

buildAbilityOptions(format, pokemon) ==
  IF detectLegacyGen(detectGenFromFormat(format)) \/ pokemon.speciesForme = NULL
  THEN <<>>
  ELSE
    LET inherited == IF pokemon.ability # pokemon.baseAbility
                     THEN << OptionGroup(IF formatId(pokemon.baseAbility) = "trace"
                                         THEN "Traced" ELSE "Inherited",
                                         <<pokemon.ability>>) >>
                     ELSE <<>>
        filter1 == IF pokemon.ability # pokemon.baseAbility
                   THEN <<pokemon.ability>> ELSE <<>>
        transformed == IF pokemon.transformedForme # NULL
                       THEN TransformedOptions(pokemon) ELSE <<>>
        filter2 == filter1 \o transformed
        poolAbilities == SortNames(SelectSeq(pokemon.altAbilities,
                           LAMBDA n : n # NULL /\ ~Includes(filter2, n)))
        filter3 == filter2 \o poolAbilities
        legalAbilities == SortNames(SelectSeq(pokemon.abilities,
                            LAMBDA n : n # NULL /\ ~Includes(filter3, n)))
        filter4 == IF pokemon.abilities # <<>> THEN filter3 \o legalAbilities ELSE filter3
        otherAbilities == SortNames(SelectSeq(BattleAbilities,
                            LAMBDA n : n # NULL /\ formatId(n) # "noability"
                                         /\ ~Includes(filter4, n)))
    IN  inherited
          \o (IF pokemon.transformedForme # NULL
              THEN << OptionGroup("Transformed", transformed) >> ELSE <<>>)
          \o (IF pokemon.altAbilities # <<>>
              THEN << OptionGroup("Pool", poolAbilities) >> ELSE <<>>)
          \o (IF pokemon.abilities # <<>>
              THEN << OptionGroup("Legal", legalAbilities) >> ELSE <<>>)
          \o (IF \/ parsedFormat(format) = ""
                 \/ ~Includes(LegalLockedFormats, parsedFormat(format))
                 \/ pokemon.abilities = <<>>
              THEN << OptionGroup("All", otherAbilities) >> ELSE <<>>)

\* no call of buildAbilityOptions() yet
NoBuild == [called |-> FALSE, format |-> NULL, pokemon |-> <<>>, options |-> <<>>]

\* the slots buildAbilityOptions() is called with
AbilitySlots ==
  [speciesForme : {NULL, "Ditto"},
   serverSourced : BOOLEAN,
   baseAbility : {NULL, "Imposter", "Trace"},
   ability : {NULL, "Drought", "Imposter", "Limber", "Trace"},
   abilities : {<<>>, <<"Limber", "Imposter">>},
   altAbilities : {<<>>, <<"Limber", "Drought">>, <<"Imposter">>},
   transformedAbilities : {<<>>, <<"Drought">>, <<"Limber", "Drought">>},
   transformedForme : {NULL, "Torkoal"}]

(***************************************************************************)
(* The state: the battle state of the store, the hook's inputs, and the    *)
(* scheduling of the hook's two effects.                                   *)
(***************************************************************************)
VARIABLES
  state,          \* CalcdexBattleState, as held by the store
  ready,          \* presets.ready
  settings,       \* ShowdexCalcdexSettings
  snap,           \* the state and readiness the last render closed over
  pending,        \* the effects of the last render that have yet to run
  appliedSheets,  \* appliedSheets.current
  events,         \* how many external events happened
  last,           \* what the last effect run did (history)
  arrived,        \* the ids of the sheets of each wave, in arrival order (history)
  sheetCommits,   \* how many times the Sheets effect dispatched (history)
  ranDeps,        \* the dependencies the AutoPreset effect last ran with (history)
  paste,          \* the candidate importPokePaste() is building, and the line it read
  built           \* a call of buildAbilityOptions(): its arguments and what it returned

vars == <<state, ready, settings, snap, pending, appliedSheets, events, last,
          arrived, sheetCommits, ranDeps, paste, built>>

Player(name, pokemon) ==
  [name |-> name, selectionIndex |-> 0, pokemon |-> pokemon]

NoField ==
  [autoWeather |-> NULL, dirtyWeather |-> NULL,
   autoTerrain |-> NULL, dirtyTerrain |-> NULL]

\* the formats a battle is played in, with the legacy flag of each
Formats == { <<"gen9ou", FALSE>>, <<"gen1ou", TRUE>> }

Battle(format, p1, p2) ==
  [battleId |-> "battle-1", format |-> format[1], legacy |-> format[2],
   defaultLevel |-> 100, sheets |-> <<>>, sheetsNonce |-> 0,
   field |-> NoField, p1 |-> Player("Alice", p1), p2 |-> Player("Bob", p2)]

NoRun ==
  [effect |-> "none", dispatched |-> FALSE, outcomes |-> {}, field |-> <<>>,
   input |-> <<>>, before |-> <<>>, latch |-> FALSE]

Rendered == [state |-> state, ready |-> ready]

\* the random battles: Alice's Torkoal against a side with or without a
\* species that has no general candidate
RandomBattles ==
  { Battle(<<"gen9randombattle", FALSE>>,
           << ServerPokemon("p1a", "Torkoal", StatsOfSpread, "Drought", "HeatRock", G1Moves) >>,
           p2) :
      p2 \in { << NewPokemon("p2a", "Torkoal") >>,
               << NewPokemon("p2a", "Ferrothorn"), NewPokemon("p2b", "Torkoal") >> } }

\* the battles of a Torkoal of Alice's that comes with a candidate attached:
\* one she imported, or one of the server's
AttachedBattles ==
  { Battle(<<"gen9ou", FALSE>>,
           << [ServerPokemon("p1a", "Torkoal", StatsOfSpread, "Drought", "HeatRock", G1Moves)
                 EXCEPT !.presets = <<attached>>] >>,
           << NewPokemon("p2a", "Torkoal") >>) :
      attached \in
        { [Candidate("I1", "import", "ou", "Torkoal", "Drought", "HeatRock",
                     <<"Eruption", "Yawn">>, <<>>) EXCEPT !.playerName = "Alice"],
          [Candidate("Y1", "server", "ou", "Torkoal", "Drought", "HeatRock",
                     G1Moves, <<>>) EXCEPT !.playerName = "Alice"] } }

\* the hook mounts: its first render runs both effects
Init ==
  /\ state \in { Battle(f, p1, p2) : f \in Formats, p1 \in P1Parties, p2 \in P2Parties }
                 \cup RandomBattles \cup AttachedBattles
  /\ ready \in BOOLEAN
  /\ settings \in [prioritizeUsageStats : BOOLEAN]
  /\ snap = Rendered
  /\ pending = {"auto", "sheets"}
  /\ appliedSheets = FALSE
  /\ events = 0
  /\ last = NoRun
  /\ arrived = <<>>
  /\ sheetCommits = 0
  /\ ranDeps = <<>>
  /\ paste = NoPaste
  /\ built = NoBuild

(***************************************************************************)
(* The effects.  React runs the effects of a render in the order they are  *)
(* declared, each over the state the render closed over.                   *)
(***************************************************************************)
RunAutoPreset ==
  /\ "auto" \in pending
  /\ \E e \in {AutoPresetEffect(snap.state, useBattlePresets(snap.ready), settings)} :
         /\ state' = IF e.dispatched THEN Reduce(state, e.players, e.field) ELSE state
         /\ last' = [effect |-> "auto", dispatched |-> e.dispatched,
                     outcomes |-> e.outcomes, field |-> e.field,
                     input |-> snap, before |-> state, latch |-> appliedSheets]
  /\ pending' = pending \ {"auto"}
  /\ ranDeps' = AutoDeps(snap.state, useBattlePresets(snap.ready))
  /\ UNCHANGED <<ready, settings, snap, appliedSheets, events, arrived, sheetCommits, paste, built>>

\* the Sheets effect without the assignment to the latch
RunSheetsWithoutLatch ==
  /\ pending = {"sheets"}
  /\ \E e \in {SheetsEffect(appliedSheets, snap.state, useBattlePresets(snap.ready))} :
         /\ state' = IF e.dispatched THEN Reduce(state, e.players, e.field) ELSE state
         /\ last' = [effect |-> "sheets", dispatched |-> e.dispatched,
                     outcomes |-> e.outcomes, field |-> e.field,
                     input |-> snap, before |-> state, latch |-> appliedSheets]
         /\ sheetCommits' = sheetCommits + (IF e.dispatched THEN 1 ELSE 0)
  /\ pending' = {}
  /\ UNCHANGED <<ready, settings, snap, events, arrived, appliedSheets, ranDeps, paste, built>>

RunSheets ==
  /\ pending = {"sheets"}
  /\ \E e \in {SheetsEffect(appliedSheets, snap.state, useBattlePresets(snap.ready))} :
         /\ state' = IF e.dispatched THEN Reduce(state, e.players, e.field) ELSE state
         /\ appliedSheets' = (appliedSheets \/ e.dispatched)
         /\ last' = [effect |-> "sheets", dispatched |-> e.dispatched,
                     outcomes |-> e.outcomes, field |-> e.field,
                     input |-> snap, before |-> state, latch |-> appliedSheets]
         /\ sheetCommits' = sheetCommits + (IF e.dispatched THEN 1 ELSE 0)
  /\ pending' = {}
  /\ UNCHANGED <<ready, settings, snap, events, arrived, ranDeps, paste, built>>

\* the store or the pools changed: the hook renders again, and the effects
\* whose dependencies changed are scheduled
Render ==
  /\ pending = {}
  /\ snap # Rendered
  /\ snap' = Rendered
  /\ pending' =
       (IF AutoDeps(state, useBattlePresets(ready))
             # AutoDeps(snap.state, useBattlePresets(snap.ready))
        THEN {"auto"} ELSE {})
       \cup (IF SheetsDeps(state) # SheetsDeps(snap.state) THEN {"sheets"} ELSE {})
  /\ UNCHANGED <<state, ready, settings, appliedSheets, events, last, arrived, sheetCommits, ranDeps, paste, built>>

(***************************************************************************)
(* External events.                                                        *)
(***************************************************************************)
Quiescent == pending = {} /\ snap = Rendered /\ events < MaxEvents

Event ==
  /\ Quiescent
  /\ events' = events + 1
  /\ last' = NoRun
  /\ UNCHANGED <<settings, snap, pending, appliedSheets, sheetCommits, ranDeps, paste, built>>

\* a change that reaches the store in the same update as the previous one
\* (one sync of the battle), before the hook has rendered again
Together ==
  /\ pending = {}
  /\ events < MaxEvents
  /\ events' = events + 1
  /\ last' = NoRun
  /\ UNCHANGED <<settings, snap, pending, appliedSheets, sheetCommits, ranDeps, paste, built>>

\* the candidate store finishes loading
PoolLoaded ==
  /\ Event
  /\ ~ready
  /\ ready' = TRUE
  /\ UNCHANGED <<state, arrived>>

\* a wave of leaked sheets arrives, alone or with the change before it
ReceiveSheets(wave) ==
  /\ Together
  /\ state.sheetsNonce < MaxWaves
  /\ ~\E i \in DOMAIN state.sheets : state.sheets[i] = wave[1]
  /\ state' = [state EXCEPT !.sheets = @ \o wave, !.sheetsNonce = @ + 1]
  /\ arrived' = Append(arrived, { wave[i].calcdexId : i \in DOMAIN wave })
  /\ UNCHANGED ready

\* a slot that is not the server's reveals its next move
RevealMove(key, i) ==
  /\ Event
  /\ i \in DOMAIN state[key].pokemon
  /\ state[key].pokemon[i].source # "server"
  /\ Len(state[key].pokemon[i].revealedMoves) < MaxMoves
  /\ LET pokemon == state[key].pokemon[i]
         move == RevealOrder(pokemon.speciesForme)[Len(pokemon.revealedMoves) + 1]
     IN  state' = [state EXCEPT ![key].pokemon[i].revealedMoves = Append(@, move)]
  /\ UNCHANGED <<ready, arrived>>

\* the user overrides the weather or the terrain
OverrideField(name, value) ==
  /\ Event
  /\ state.field[name] = NULL
  /\ state' = [state EXCEPT !.field[name] = value]
  /\ UNCHANGED <<ready, arrived>>

Next ==
  \/ RunAutoPreset
  \/ RunSheets
  \/ Render
  \/ PoolLoaded
  \/ \E wave \in SheetWaves : ReceiveSheets(wave)
  \/ \E key \in Range(AllPlayerKeys), i \in 1 .. 2 : RevealMove(key, i)
  \/ OverrideField("dirtyWeather", "Rain")
  \/ OverrideField("dirtyTerrain", "Electric")

Spec == Init /\ [][Next]_vars

(***************************************************************************)
(* importPokePaste() over the move lines of a paste: every line is one of  *)
(* MoveLines, and the hook does not run.                                   *)
(***************************************************************************)
hookVars == <<state, ready, settings, snap, pending, appliedSheets, events, last,
              arrived, sheetCommits, ranDeps>>

InitPaste ==
  /\ state = Battle(<<"gen9ou", FALSE>>, <<>>, <<>>)
  /\ ready = FALSE
  /\ settings = [prioritizeUsageStats |-> FALSE]
  /\ snap = Rendered
  /\ pending = {}
  /\ appliedSheets = FALSE
  /\ events = 0
  /\ last = NoRun
  /\ arrived = <<>>
  /\ sheetCommits = 0
  /\ ranDeps = <<>>
  /\ paste = NoPaste
  /\ built = NoBuild

\* lines.forEach(): the next line is a move line
ReadMoveLine(line) ==
  /\ paste.lines < MaxLines
  /\ paste' = [preset |-> MoveLineRead(paste.preset, line),
               line |-> line,
               before |-> paste.preset,
               lines |-> paste.lines + 1]
  /\ UNCHANGED <<hookVars, built>>

NextPaste == \E line \in MoveLines : ReadMoveLine(line)

SpecPaste == InitPaste /\ [][NextPaste]_vars

(***************************************************************************)
(* buildAbilityOptions() called once, over the formats and the slots of    *)
(* AbilitySlots; the hook does not run.                                    *)
(***************************************************************************)
AbilityFormats == {"gen9ou", "gen1ou", "gen9balancedhackmons"}

InitAbility ==
  /\ state = Battle(<<"gen9ou", FALSE>>, <<>>, <<>>)
  /\ ready = FALSE
  /\ settings = [prioritizeUsageStats |-> FALSE]
  /\ snap = Rendered
  /\ pending = {}
  /\ appliedSheets = FALSE
  /\ events = 0
  /\ last = NoRun
  /\ arrived = <<>>
  /\ sheetCommits = 0
  /\ ranDeps = <<>>
  /\ paste = NoPaste
  /\ built \in { [called |-> FALSE, format |-> format, pokemon |-> pokemon,
                   options |-> <<>>] :
                  format \in AbilityFormats, pokemon \in AbilitySlots }

\* the call
BuildAbilityOptions ==
  /\ ~built.called
  /\ built' = [built EXCEPT !.called = TRUE,
                            !.options = buildAbilityOptions(built.format, built.pokemon)]
  /\ UNCHANGED <<hookVars, paste>>

NextAbility == BuildAbilityOptions

SpecAbility == InitAbility /\ [][NextAbility]_vars

(***************************************************************************)
(* Properties.  `last` is what the last effect run did: the slots it went  *)
(* through (outcomes), the state it computed from (input) and the store it *)
(* dispatched to (before).                                                 *)
(***************************************************************************)
AutoRan == last.effect = "auto"

SheetsRan == last.effect = "sheets"

\* the slot and its player as the run found them
SlotBefore(o) == last.input.state[o.key].pokemon[o.index]

PlayerBefore(o) == last.input.state[o.key]

\* the cascade chose a candidate with an id for the slot
Chose(o) == o.out.preset.calcdexId # NULL

\* the chosen candidate is of the forme the slot is transformed into
OfTransformedForme(o) ==
  /\ SlotBefore(o).transformedForme # NULL
  /\ o.out.preset.speciesForme = SlotBefore(o).transformedForme

\* what the server block of the run made of the slot
ServerBlockOf(o) ==
  ServerBlock(last.input.state,
              StartOfSlot(last.input.state, useBattlePresets(last.input.ready),
                          PlayerBefore(o), SlotBefore(o)))

\* C1 (as stated): in a resolution pass, the candidate chosen and merged for
\* a server slot is a direct-observation candidate or, for a transformed
\* slot, a candidate of the transformed forme, whatever the slot's
\* serverStats and whatever spread inference returns.
C1_ServerNeverGeneral ==
  \A o \in last.outcomes :
    (AutoRan /\ SlotBefore(o).source = "server" /\ Chose(o) /\ o.out.applied)
      => (o.out.preset.source = "server" \/ OfTransformedForme(o))

\* C1 (amended): when the server block (stages 1-3) leaves a server slot a
\* candidate with an id, that candidate is the one finally chosen, and it
\* is a direct-observation candidate or, for a transformed slot, a
\* candidate of the transformed forme; no later stage replaces it.
C1_ServerBlockFinal ==
  \A o \in last.outcomes :
    (AutoRan /\ SlotBefore(o).source = "server"
       /\ ServerBlockOf(o).preset.calcdexId # NULL)
      => /\ o.out.preset = ServerBlockOf(o).preset
         /\ o.out.preset.source = "server" \/ OfTransformedForme(o)

\* a server slot was given the candidate of its server block
C1_Witness ==
  \E o \in last.outcomes :
    /\ AutoRan /\ last.dispatched
    /\ SlotBefore(o).source = "server"
    /\ ServerBlockOf(o).preset.calcdexId # NULL
    /\ o.out.applied
    /\ o.out.pokemon.presetId = ServerBlockOf(o).preset.calcdexId

\* C2 (as stated): the merge of a chosen candidate is skipped exactly when
\* the slot's presetId is the candidate's id and there is no usage
\* candidate or the slot's usageId is the usage candidate's id.
C2_SkipExactly ==
  \A o \in last.outcomes :
    (AutoRan /\ Chose(o))
      => (~o.out.applied <=>
            /\ SlotBefore(o).presetId = o.out.preset.calcdexId
            /\ \/ o.out.usage.calcdexId = NULL
               \/ SlotBefore(o).usageId = o.out.usage.calcdexId)

\* C3 (as stated): in stage 4 and in the Sheets effect alike, the sheet
\* selected for a slot that is not transformed is of the slot's own side.
C3_SheetOfOwnSide ==
  \A o \in last.outcomes :
    ((AutoRan \/ SheetsRan) /\ o.out.stage = 4
       /\ SlotBefore(o).transformedForme = NULL)
      => formatId(o.out.preset.playerName) = formatId(PlayerBefore(o).name)

\* the outcomes of the active slots the cascade resolved
ActiveResolved ==
  { o \in last.outcomes :
      o.index = PlayerBefore(o).selectionIndex + 1 /\ o.out.stage # 9 }

InducedWeathers ==
  { determineWeather(o.out.pokemon, last.input.state.format) : o \in ActiveResolved }
    \ {NULL}

InducedTerrains ==
  { determineTerrain(o.out.pokemon) : o \in ActiveResolved } \ {NULL}

\* C4 (as stated): a resolution pass leaves a present dirtyWeather
\* (dirtyTerrain) as it is, also when the active slot induces a weather
\* (terrain).
C4_DirtyKept ==
  (AutoRan /\ last.dispatched)
    => /\ last.before.field.dirtyWeather # NULL
            => state.field.dirtyWeather = last.before.field.dirtyWeather
       /\ last.before.field.dirtyTerrain # NULL
            => state.field.dirtyTerrain = last.before.field.dirtyTerrain

\* C4 (amended): when the resolved active slot induces a weather (terrain),
\* the committed patch sets autoWeather (autoTerrain) to it and clears
\* dirtyWeather (dirtyTerrain); when it induces none, the patch leaves both
\* entries as they were.
C4_FieldPatch ==
  (AutoRan /\ last.dispatched)
    => /\ IF InducedWeathers = {}
          THEN /\ state.field.dirtyWeather = last.before.field.dirtyWeather
               /\ state.field.autoWeather = last.before.field.autoWeather
          ELSE /\ state.field.dirtyWeather = NULL
               /\ state.field.autoWeather \in InducedWeathers
       /\ IF InducedTerrains = {}
          THEN /\ state.field.dirtyTerrain = last.before.field.dirtyTerrain
               /\ state.field.autoTerrain = last.before.field.autoTerrain
          ELSE /\ state.field.dirtyTerrain = NULL
               /\ state.field.autoTerrain \in InducedTerrains

\* a pass cleared the weather the user had overridden
C4_Witness ==
  /\ AutoRan /\ last.dispatched
  /\ last.before.field.dirtyWeather = "Rain"
  /\ state.field.dirtyWeather = NULL
  /\ state.field.autoWeather = "Sun"

\* C5: the Sheets effect dispatches at most once: the latch is set by its
\* first dispatch, is never unset, and no later arrival makes it dispatch
\* again.
C5_OneShot ==
  \/ sheetCommits = 0 /\ ~appliedSheets
  \/ sheetCommits = 1 /\ appliedSheets

\* the effect ran on a later wave with the latch set, and did not dispatch
C5_Witness ==
  /\ SheetsRan /\ last.latch /\ ~last.dispatched
  /\ appliedSheets
  /\ sheetCommits = 1
  /\ Len(arrived) > 1

\* the wave a sheet arrived in
WaveOf(id) == CHOOSE w \in DOMAIN arrived : id \in arrived[w]

\* the run merged a leaked sheet into the slot
SheetApplied(o) ==
  /\ AutoRan \/ SheetsRan
  /\ last.dispatched
  /\ o.out.stage = 4
  /\ o.out.applied

\* C6 (as stated): with sheets arriving in two waves, neither the Sheets
\* effect nor stage 4 of a resolution pass ever merges a sheet of the
\* second wave into a slot.
C6_OnlyFirstWave ==
  \A o \in last.outcomes :
    SheetApplied(o) => WaveOf(o.out.preset.calcdexId) = 1

\* C6 (amended): a sheet of a later wave is merged into a slot by stage 4
\* of a resolution pass, or by the Sheets effect when that effect has not
\* dispatched before; the Sheets effect merges no sheet once it has
\* dispatched.
C6_LaterWave ==
  \A o \in last.outcomes :
    (SheetApplied(o) /\ WaveOf(o.out.preset.calcdexId) > 1)
      => \/ AutoRan /\ o.out.preset \in Range(last.input.state.sheets)
         \/ SheetsRan /\ ~last.latch /\ sheetCommits = 1

\* stage 4 of a resolution pass merged a sheet of the second wave
C6_Witness ==
  \E o \in last.outcomes :
    /\ AutoRan
    /\ SheetApplied(o)
    /\ WaveOf(o.out.preset.calcdexId) = 2

\* the pass run again, on the state the last pass committed
SecondRun == AutoPresetEffect(state, useBattlePresets(last.input.ready), settings)

\* C7 (as stated): a second run of the pipeline on the committed state
\* dispatches nothing.
C7_SecondRunEmpty ==
  (AutoRan /\ last.dispatched) => ~SecondRun.dispatched

\* C8 (as stated): while presets.ready is false, neither effect dispatches.
C8_NotReadyNoCommit ==
  (~AutoRan /\ ~SheetsRan) \/ last.input.ready \/ ~last.dispatched

\* C9: every slot a resolution pass goes through ends it either with a
\* candidate with an id chosen (and a preset on the slot), or reset to the
\* defaults with showGenetics set; never without a candidate and without
\* the flag.
C9_OneOutcome ==
  \A o \in last.outcomes :
    AutoRan
      => \/ /\ Chose(o)
            /\ o.out.stage \in 1 .. 8
            /\ o.out.pokemon.presetId # NULL
            /\ o.out.pokemon.showGenetics = SlotBefore(o).showGenetics
         \/ /\ ~Chose(o)
            /\ o.out.stage = 9
            /\ o.out.pokemon.presetId = SlotBefore(o).presetId
            /\ o.out.pokemon.showGenetics
            /\ ~o.out.pokemon.autoPreset
            /\ o.out.pokemon.nature # NULL
            /\ o.out.pokemon.ivs = populateStatsTable
            /\ o.out.pokemon.evs = populateStatsTable
            /\ o.out.pokemon.moves = <<>>

\* a pass that chose a candidate for one slot and reset another
C9_Witness ==
  /\ AutoRan /\ last.dispatched
  /\ \E o \in last.outcomes : Chose(o) /\ o.out.applied
  /\ \E o \in last.outcomes : ~Chose(o) /\ o.out.pokemon.showGenetics

\* the natures that raise and lower no stat
NeutralNatures == {"Hardy", "Docile", "Serious", "Bashful", "Quirky"}

\* the rest of the reset: the spread of populateStatsTable(), no moves, no alternates, the
\* stats opened, autoPreset off
ResetButNature(pokemon) ==
  /\ pokemon.ivs = populateStatsTable
  /\ pokemon.evs = populateStatsTable
  /\ pokemon.moves = <<>>
  /\ pokemon.altMoves = <<>>
  /\ pokemon.altAbilities = <<>>
  /\ pokemon.altItems = <<>>
  /\ pokemon.altTeraTypes = <<>>
  /\ pokemon.showGenetics
  /\ ~pokemon.autoPreset

\* C10 (as stated): a slot no stage finds a candidate for ends the pass
\* with a neutral nature and the rest of the reset, legacy or not.
C10_NeutralFallback ==
  \A o \in last.outcomes :
    (AutoRan /\ ~Chose(o))
      => /\ o.out.pokemon.nature \in NeutralNatures
         /\ ResetButNature(o.out.pokemon)

\* C10 (amended): a slot no stage finds a candidate for ends the pass with
\* the nature Hardy in a legacy battle and Adamant otherwise, and the rest
\* of the reset in both.
C10_Fallback ==
  \A o \in last.outcomes :
    (AutoRan /\ ~Chose(o))
      => /\ last.input.state.legacy => o.out.pokemon.nature = "Hardy"
         /\ ~last.input.state.legacy => o.out.pokemon.nature = "Adamant"
         /\ ResetButNature(o.out.pokemon)

\* a slot of a battle that is not legacy was reset
C10_Witness ==
  \E o \in last.outcomes :
    /\ AutoRan /\ last.dispatched
    /\ ~Chose(o)
    /\ ~last.input.state.legacy
    /\ o.out.pokemon.nature = "Adamant"
    /\ o.out.pokemon.showGenetics

\* the cascade of the slot as it enters stages 5-7
BeforeFormatBlock(o) == SheetPreset(last.input.state, ServerBlockOf(o))

\* the structural matches of stage 5 and of stage 7
FormatMatches(o) ==
  guessMatchingPresets(
    selectPokemonPresets(BeforeFormatBlock(o).pokemonPresets, SlotBefore(o),
                         last.input.state.format, TRUE, NULL, "one"),
    SlotBefore(o), last.input.state.format)

AnyFormatMatches(o) ==
  guessMatchingPresets(
    selectPokemonPresets(BeforeFormatBlock(o).pokemonPresets, SlotBefore(o),
                         last.input.state.format, FALSE, NULL, "one"),
    SlotBefore(o), last.input.state.format)

\* the structural match of stage 5 or 7 gave exactly one candidate, and
\* that candidate is the one chosen
ChoseOnlyMatch(o) ==
  \/ /\ o.out.stage = 5
     /\ Len(FormatMatches(o)) = 1
     /\ o.out.preset = Head(FormatMatches(o))
  \/ /\ o.out.stage = 7
     /\ Len(AnyFormatMatches(o)) = 1
     /\ o.out.preset = Head(AnyFormatMatches(o))

\* the structural match gave several candidates, the first of which is chosen
ChoseFirstOfMatches(o) ==
  \/ /\ o.out.stage = 5
     /\ Len(FormatMatches(o)) > 1
     /\ o.out.preset = Head(FormatMatches(o))
  \/ /\ o.out.stage = 7
     /\ Len(AnyFormatMatches(o)) > 1
     /\ o.out.preset = Head(AnyFormatMatches(o))

\* C11 (as stated): when the structural match of stage 5 or 7 returns
\* exactly one candidate and it is chosen, the slot's autoPreset is true
\* after the pass.
C11_OnlyMatchStaysAuto ==
  \A o \in last.outcomes :
    (AutoRan /\ ChoseOnlyMatch(o)) => o.out.pokemon.autoPreset

\* C11 (amended): when the structural match of stage 5 or 7 returns exactly
\* one candidate and it is chosen, the slot's autoPreset is false after the
\* pass; when it returns several and the first is chosen, autoPreset is
\* true.
C11_OnlyMatchEndsAuto ==
  \A o \in last.outcomes :
    AutoRan
      => /\ ChoseOnlyMatch(o) => ~o.out.pokemon.autoPreset
         /\ ChoseFirstOfMatches(o) => o.out.pokemon.autoPreset

\* a slot that was auto-assigned got the only match of stage 5
C11_Witness ==
  \E o \in last.outcomes :
    /\ AutoRan /\ last.dispatched
    /\ ChoseOnlyMatch(o)
    /\ o.out.stage = 5
    /\ SlotBefore(o).autoPreset
    /\ ~o.out.pokemon.autoPreset
    /\ o.out.applied

\* the pass runs on a format that is not randomized, with
\* prioritizeUsageStats on, for a slot that has a statistical candidate
UsagePrioritized(o) ==
  /\ AutoRan
  /\ ~IsRandoms(last.input.state.format)
  /\ settings.prioritizeUsageStats
  /\ ServerBlockOf(o).usage.calcdexId # NULL

\* C12 (as stated): with the statistical candidate prioritized, it is the
\* final choice whenever stages 1-5 did not choose a direct-observation
\* candidate, also over a leaked sheet of stage 4; a direct-observation
\* candidate is never replaced by it.
C12_UsageOverAll ==
  \A o \in last.outcomes :
    UsagePrioritized(o)
      => IF BeforeFormatBlock(o).preset.source = "server"
         THEN o.out.preset = BeforeFormatBlock(o).preset
         ELSE o.out.preset.source = "usage"

\* C12 (amended): with the statistical candidate prioritized, it is the
\* final choice exactly when stages 1-4 chose nothing (it then replaces
\* whatever stage 5 chose); a candidate chosen by stages 1-4, be it
\* direct-observation, of the transformed forme or a leaked sheet, is final.
C12_UsageOverGeneral ==
  \A o \in last.outcomes :
    UsagePrioritized(o)
      => IF BeforeFormatBlock(o).preset.calcdexId # NULL
         THEN o.out.preset = BeforeFormatBlock(o).preset
         ELSE /\ o.out.preset = ServerBlockOf(o).usage
              /\ o.out.stage \in {6, 8}

\* a leaked sheet of stage 4 stayed the choice though the statistical
\* candidate was prioritized
C12_Witness ==
  \E o \in last.outcomes :
    /\ UsagePrioritized(o)
    /\ last.dispatched
    /\ o.out.stage = 4
    /\ o.out.preset.source = "sheet"
    /\ o.out.applied

\* the slot has no direct observation, no leaked sheet and no general
\* candidate, but a statistical one, and the statistical candidates are
\* not prioritized
OnlyUsageKnown(o) ==
  /\ AutoRan
  /\ ~IsRandoms(last.input.state.format)
  /\ ~settings.prioritizeUsageStats
  /\ SlotBefore(o).source # "server"
  /\ selectPokemonPresets(last.input.state.sheets, SlotBefore(o),
                          last.input.state.format, FALSE, "sheet", "any") = <<>>
  /\ ServerBlockOf(o).pokemonPresets = <<>>
  /\ ServerBlockOf(o).usage.calcdexId # NULL

\* C13: a slot without direct observation, leaked sheet or general
\* candidate that has a statistical candidate is given it by stage 8 (not
\* by stage 6) when the statistical candidates are not prioritized: the
\* candidate is merged and the slot is not reset.
C13_BareUsage ==
  \A o \in last.outcomes :
    OnlyUsageKnown(o)
      => /\ o.out.stage = 8
         /\ o.out.preset = ServerBlockOf(o).usage
         /\ o.out.applied
         /\ o.out.pokemon.presetId = o.out.preset.calcdexId
         /\ o.out.pokemon.moves = IF Len(SlotBefore(o).revealedMoves) = MaxMoves
                                  THEN SlotBefore(o).moves
                                  ELSE o.out.preset.moves
         /\ o.out.pokemon.showGenetics = SlotBefore(o).showGenetics
         /\ ~o.out.pokemon.autoPreset

\* a Ferrothorn was given the moves of its statistical candidate
C13_Witness ==
  \E o \in last.outcomes :
    /\ OnlyUsageKnown(o)
    /\ last.dispatched
    /\ o.out.stage = 8
    /\ o.out.pokemon.moves = <<"StealthRock", "GyroBall">>
    /\ state[o.key].pokemon[o.index].presetId = "U2"


\* a slot of the user's own side whose stats were observed and all four of
\* whose moves were seen
ObservedWithMoves(pokemon) ==
  /\ pokemon.source = "server"
  /\ nonEmptyObject(pokemon.serverStats)
  /\ Len(pokemon.revealedMoves) = MaxMoves

\* C14: a slot with source = server and complete observed stats that has 4
\* revealed moves never has its moves replaced by the moves of a candidate
\* of the general pool or of the statistical usage, in any pass.
C14_ObservedMovesKept ==
  \A o \in last.outcomes :
    ( /\ AutoRan
      /\ ObservedWithMoves(SlotBefore(o))
      /\ Chose(o)
      /\ o.out.preset.source \in {"smogon", "usage"} )
      => o.out.pokemon.moves = SlotBefore(o).moves


\* a slot without direct observation all four of whose moves were seen
SeenAllMoves(pokemon) ==
  /\ pokemon.source # "server"
  /\ Len(pokemon.revealedMoves) = MaxMoves

\* C15: in every automatic merge, by the AutoPreset effect and by the Sheets
\* effect, a slot whose source is not server and that already has 4
\* revealedMoves keeps its moves.
C15_SeenMovesKept ==
  \A o \in last.outcomes :
    ( /\ last.effect \in {"auto", "sheets"}
      /\ SeenAllMoves(SlotBefore(o))
      /\ o.out.applied )
      => o.out.pokemon.moves = SlotBefore(o).moves


\* C16: the Sheets effect never applies a leaked sheet that lacks a fully
\* specified spread (nature, EVs and IVs).
C16_LateSheetComplete ==
  \A o \in last.outcomes :
    (SheetsRan /\ o.out.applied) => detectCompletePreset(o.out.preset)


\* the slot reaches stage 4 without a candidate and its first leaked sheet
\* is an open one
OpenSheetFirst(o) ==
  /\ AutoRan
  /\ ServerBlockOf(o).preset.calcdexId = NULL
  /\ \E sheet \in {FirstSheet(last.input.state, ServerBlockOf(o))} :
       sheet.calcdexId # NULL /\ ~detectCompletePreset(sheet)

\* the battle state without its leaked sheets
WithoutSheets(st) == [st EXCEPT !.sheets = <<>>]

\* C17: stage 4 never chooses a leaked sheet without a fully specified
\* spread; the slot goes on with stage 5 and the later stages as if the
\* battle had no sheet.
C17_OpenSheetPassed ==
  \A o \in last.outcomes :
    OpenSheetFirst(o)
      => /\ o.out.preset.source # "sheet"
         /\ o.out.stage # 4
         /\ o.out = ResolveSlot(WithoutSheets(last.input.state),
                                useBattlePresets(last.input.ready), settings,
                                PlayerBefore(o), SlotBefore(o))

\* an open sheet was the only candidate of the slot, which was reset
C17_Witness ==
  \E o \in last.outcomes :
    /\ OpenSheetFirst(o)
    /\ last.dispatched
    /\ BeforeFormatBlock(o).pokemonPresets = <<>>
    /\ BeforeFormatBlock(o).usage.calcdexId = NULL
    /\ o.out.stage = 9


\* the Sheets effect ran and no slot of it took a sheet
NoSheetTaken == SheetsRan /\ \A o \in last.outcomes : ~o.out.applied

\* C18: the latch is set only by a run of the Sheets effect that has a
\* non-empty patch and dispatches it; a run in which no slot takes a sheet
\* dispatches nothing and leaves the latch as it was.
C18_LatchOnlyOnCommit ==
  /\ appliedSheets => sheetCommits > 0
  /\ NoSheetTaken => (~last.dispatched /\ appliedSheets = last.latch)
  /\ (SheetsRan /\ appliedSheets /\ ~last.latch)
       => (last.dispatched /\ \E o \in last.outcomes : o.out.applied)

\* after a wave that no slot could take, a later wave was applied, for the
\* first time
C18_Witness ==
  /\ SheetsRan
  /\ Len(arrived) > 1
  /\ ~last.latch
  /\ last.dispatched
  /\ appliedSheets
  /\ sheetCommits = 1


\* the parties the Sheets effect dispatched
SheetParties ==
  [key \in SheetPlayers(last.outcomes) |->
     PartyOf(last.input.state, last.outcomes, key)]

EligibleSlots ==
  UNION { { <<key, i>> : i \in PresetlessIndices(last.input.state[key]) } :
          key \in AutoPlayers(last.input.state) }

\* the patch of the pass: the parties and the field entries it computed
AutoParties ==
  [key \in { o.key : o \in last.outcomes } |->
     PartyOf(last.input.state, last.outcomes, key)]

RenderedDeps == AutoDeps(snap.state, useBattlePresets(snap.ready))

\* what the fingerprint summarises of an auto-assigned slot
AutoSummary(pokemon) == <<pokemon.ability, pokemon.item, Len(pokemon.revealedMoves)>>

\* C21: the AutoPreset effect runs only when the battle id, the format, the
\* readiness of the pools or the fingerprint of some side differs from its
\* value at the previous run, so a change of the state that alters none of
\* them schedules no run; and a change of the ability, the item or the
\* number of revealed moves of an auto-assigned slot changes the fingerprint
\* of its side.
C21_RunsOnChange ==
  /\ "auto" \in pending => RenderedDeps # ranDeps
  /\ (pending = {} /\ ranDeps # <<>>) => RenderedDeps = ranDeps
  /\ \A k \in DOMAIN AllPlayerKeys :
       \A i \in DOMAIN state[AllPlayerKeys[k]].pokemon :
         \E now \in {state[AllPlayerKeys[k]].pokemon[i]},
            was \in {snap.state[AllPlayerKeys[k]].pokemon[i]} :
           (now.autoPreset /\ was.autoPreset /\ AutoSummary(now) # AutoSummary(was))
             => playerAutoNonce(state[AllPlayerKeys[k]])
                  # playerAutoNonce(snap.state[AllPlayerKeys[k]])

\* after an override of the weather that scheduled nothing, a revealed move
\* alone scheduled a run
C21_Witness ==
  /\ "auto" \in pending
  /\ events > 1
  /\ state.field.dirtyWeather = "Rain"
  /\ ranDeps # <<>>
  /\ RenderedDeps[2] = ranDeps[2]
  /\ RenderedDeps[1] # ranDeps[1]


\* the side with the presetId of one slot replaced
WithPresetId(player, i, id) == [player EXCEPT !.pokemon[i].presetId = id]

\* the ids a user may give a slot by hand
HandPickedIds == {"G1", "G2", "U1"}

\* C22 (as stated): two states of a side that differ only in the presetId of
\* a slot that is not auto-assigned have different fingerprints.
C22_PresetIdTold ==
  \A k \in DOMAIN AllPlayerKeys :
    \A i \in DOMAIN state[AllPlayerKeys[k]].pokemon :
      \A id \in HandPickedIds :
        \E player \in {state[AllPlayerKeys[k]]} :
          (~player.pokemon[i].autoPreset /\ player.pokemon[i].presetId # id)
            => playerAutoNonce(WithPresetId(player, i, id)) # playerAutoNonce(player)


\* C22 (amended): the fingerprint of a side has an entry for its presetless
\* slots only, so a slot that is not auto-assigned and has a presetId is not
\* part of it: two states of a side that differ only in the presetId of a
\* slot that is not auto-assigned have different fingerprints exactly when
\* one of the two presetIds is empty.
C22_PresetIdOutside ==
  \A k \in DOMAIN AllPlayerKeys :
    \A i \in DOMAIN state[AllPlayerKeys[k]].pokemon :
      \A id \in HandPickedIds \cup {NULL} :
        \E player \in {state[AllPlayerKeys[k]]} :
          (~player.pokemon[i].autoPreset /\ player.pokemon[i].presetId # id)
            => ( playerAutoNonce(WithPresetId(player, i, id)) # playerAutoNonce(player)
                 <=> (id = NULL \/ player.pokemon[i].presetId = NULL) )

\* a slot that is not auto-assigned holds a candidate, and the fingerprint
\* of its side is the same with another
C22_Witness ==
  \E i \in DOMAIN state.p2.pokemon :
    /\ ~state.p2.pokemon[i].autoPreset
    /\ state.p2.pokemon[i].presetId = "G3"
    /\ playerAutoNonce(WithPresetId(state.p2, i, "G1")) = playerAutoNonce(state.p2)


\* the moves a statistical candidate lists: its own and its alternates
MovePool(u) == flattenAlts(u.altMoves) \o u.moves

\* the first variant whose move pool holds every reference move, else the
\* first variant
FirstCovering(variants, moves) ==
  First(SelectSeq(variants, LAMBDA u : EveryIn(moves, MovePool(u))),
        First(variants, NoPreset))

\* the role variants of the slot of an outcome, as the effect that ran
\* selects them
RoleVariants(o) ==
  selectPokemonPresets(useBattlePresets(last.input.ready).usages, SlotBefore(o),
                       last.input.state.format, TRUE, "usage",
                       IF SheetsRan THEN "one" ELSE "any")

\* C23: with several statistical role variants of a species, the variant
\* that goes with the chosen candidate or sheet is the first one in input
\* order whose move pool (moves and alternates) holds every move of that
\* candidate, and the first one when none does.
C23_FirstCoveringVariant ==
  \A o \in last.outcomes :
    ( /\ AutoRan \/ SheetsRan
      /\ o.out.preset.calcdexId # NULL
      /\ Len(RoleVariants(o)) > 1 )
      => o.out.usage = FirstCovering(RoleVariants(o), o.out.preset.moves)


\* the slot shows a move that the first role variant does not list and a
\* later variant does
ShowsLowerRankedMove(o) ==
  /\ AutoRan
  /\ Len(RoleVariants(o)) > 1
  /\ \E m \in Range(SlotBefore(o).revealedMoves) :
       /\ ~Includes(MovePool(RoleVariants(o)[1]), m)
       /\ \E j \in DOMAIN RoleVariants(o) :
            EveryIn(SlotBefore(o).revealedMoves, MovePool(RoleVariants(o)[j]))

\* C24: when a slot already shows a move that only a lower-ranked role
\* variant lists, the statistical candidate the pass uses for the slot is
\* the covering variant, not the higher-ranked one.
C24_CoveringVariantUsed ==
  \A o \in last.outcomes :
    ShowsLowerRankedMove(o)
      => /\ o.out.usage.calcdexId # NULL
         /\ EveryIn(SlotBefore(o).revealedMoves, MovePool(o.out.usage))


\* stage 1 or stage 2 gave a server slot that is not transformed a candidate
ObservedCandidate(o) ==
  /\ AutoRan
  /\ IsServerSourced(SlotBefore(o))
  /\ SlotBefore(o).transformedForme = NULL
  /\ ServerBlockOf(o).preset.calcdexId # NULL

\* C25: the stages short-circuit in order.  The candidate stage 1 or stage 2
\* gives a server slot that is not transformed is the choice of the pass,
\* whatever sheets, general and statistical candidates there are and
\* whatever prioritizeUsageStats is; and a candidate of any format (stage 7)
\* is chosen only when neither stage 5 nor stage 6 gave one.
C25_StagesShortCircuit ==
  \A o \in last.outcomes :
    /\ ObservedCandidate(o)
         => /\ o.out.stage \in {1, 2}
            /\ o.out.preset = ServerBlockOf(o).preset
            /\ o.out.preset.source = "server"
    /\ (AutoRan /\ o.out.stage = 7)
         => \E c5 \in {FormatPreset(last.input.state, BeforeFormatBlock(o))} :
              /\ BeforeFormatBlock(o).preset.calcdexId = NULL
              /\ c5.preset.calcdexId = NULL
              /\ UsagePreset(last.input.state, settings, c5).preset.calcdexId = NULL

\* a server Torkoal kept its own candidate in a pass that had a sheet of its
\* side, general and statistical candidates and prioritizeUsageStats on
C25_Witness ==
  \E o \in last.outcomes :
    /\ ObservedCandidate(o)
    /\ settings.prioritizeUsageStats
    /\ FirstSheet(last.input.state, StartOfSlot(last.input.state,
                    useBattlePresets(last.input.ready), PlayerBefore(o),
                    SlotBefore(o))).calcdexId # NULL
    /\ ServerBlockOf(o).pokemonPresets # <<>>
    /\ ServerBlockOf(o).usage.calcdexId # NULL
    /\ o.out.preset.source = "server"


\* a transformed slot of the server's with observed stats
TransformedObserved(o) ==
  /\ AutoRan
  /\ IsServerSourced(SlotBefore(o))
  /\ SlotBefore(o).transformedForme # NULL

\* what stage 1, and stages 1-2, leave of the slot of an outcome
AfterStage1(o) ==
  ServerPreset(last.input.state,
               StartOfSlot(last.input.state, useBattlePresets(last.input.ready),
                           PlayerBefore(o), SlotBefore(o)))

AfterStage2(o) == GuessedPreset(last.input.state, AfterStage1(o))

\* C26: for a transformed server slot the candidate left after stages 1-3
\* is a stage-1 result of the transformed forme, or a candidate of the
\* transformed forme whose moves and alternates hold every transformed
\* move, or none; a result of stages 1-2 for the slot's own forme is never
\* kept, and stage 2 gives a transformed slot no candidate.
C26_TransformedChoice ==
  \A o \in last.outcomes :
    TransformedObserved(o)
      => /\ AfterStage2(o) = AfterStage1(o)
         /\ \/ ServerBlockOf(o).preset.calcdexId = NULL
            \/ /\ ServerBlockOf(o).preset = AfterStage1(o).preset
               /\ ServerBlockOf(o).preset.speciesForme = SlotBefore(o).transformedForme
            \/ /\ ServerBlockOf(o).preset.speciesForme = SlotBefore(o).transformedForme
               /\ Includes(ServerBlockOf(o).pokemonPresets, ServerBlockOf(o).preset)
               /\ EveryIn(SlotBefore(o).transformedMoves,
                          flattenAlts(ServerBlockOf(o).preset.altMoves)
                            \o ServerBlockOf(o).preset.moves)

\* stage 1 found the candidate of a Ditto's own forme; the Ditto, transformed
\* into a Torkoal, was given a Torkoal candidate
C26_Witness ==
  \E o \in last.outcomes :
    /\ TransformedObserved(o)
    /\ AfterStage1(o).preset.speciesForme = "Ditto"
    /\ AfterStage1(o).preset.source = "server"
    /\ ServerBlockOf(o).preset.calcdexId = "G1"
    /\ o.out.stage = 3
    /\ last.dispatched


\* the slots the last run computed an update for: the slots the AutoPreset
\* effect went through, the slots the Sheets effect gave a sheet
UpdatedSlots ==
  { <<o.key, o.index>> : o \in { u \in last.outcomes : AutoRan \/ u.out.applied } }

\* C27: no pass computes its patch from a state that predates another
\* pass's commit: when the AutoPreset effect and the Sheets effect are
\* scheduled by the same change, the one that commits second has seen what
\* the first committed, so its commit changes only the slots it computed an
\* update for and no update of the other is lost.
C27_NoLostUpdate ==
  ((AutoRan \/ SheetsRan) /\ last.dispatched)
    => /\ last.input.state = last.before
       /\ \A k \in DOMAIN AllPlayerKeys :
            \A i \in DOMAIN last.before[AllPlayerKeys[k]].pokemon :
              <<AllPlayerKeys[k], i>> \notin UpdatedSlots
                => state[AllPlayerKeys[k]].pokemon[i]
                     = last.before[AllPlayerKeys[k]].pokemon[i]


\* the candidates without an id that the slot of an outcome meets: in the
\* general pool, among the sheets
IdlessGeneral(o) ==
  SelectSeq(ServerBlockOf(o).pokemonPresets, LAMBDA p : p.calcdexId = NULL)

IdlessSheet(o) ==
  \E sheet \in {IF AutoRan
                THEN FirstSheet(last.input.state, ServerBlockOf(o))
                ELSE SheetOfSlot(last.input.state, PlayerBefore(o), SlotBefore(o))} :
    sheet.speciesForme # NULL /\ sheet.calcdexId = NULL

\* C28: a candidate without an id is never merged into a slot: the cascade
\* goes on to its next stage or to the terminal fallback, the Sheets effect
\* skips a sheet without an id, and the pass goes through every slot.
C28_IdlessNeverMerged ==
  \A o \in last.outcomes :
    /\ o.out.applied
         => /\ o.out.preset.calcdexId # NULL
            /\ o.out.pokemon.presetId = o.out.preset.calcdexId
    /\ (AutoRan /\ (IdlessGeneral(o) # <<>> \/ IdlessSheet(o)))
         => /\ o.out.stage \in 1 .. 9
            /\ o.out.stage = 9 <=> ~Chose(o)
            /\ o.out.pokemon.presetId \in {SlotBefore(o).presetId, o.out.preset.calcdexId}
            /\ EligibleSlots = { <<u.key, u.index>> : u \in last.outcomes }
    /\ (SheetsRan /\ IdlessSheet(o))
         => /\ ~o.out.applied
            /\ o.out.pokemon = SlotBefore(o)

\* a Smeargle whose sheet and whose general candidate have no id went on to
\* its statistical candidate
C28_Witness ==
  \E o \in last.outcomes :
    /\ AutoRan
    /\ IdlessSheet(o)
    /\ IdlessGeneral(o) # <<>>
    /\ o.out.stage = 6
    /\ o.out.applied
    /\ state[o.key].pokemon[o.index].presetId = "U5"


(***************************************************************************)
(* The objects a pass writes to.  A candidate of a pool is named by its    *)
(* pool and its place in it; an object made during the pass is local.      *)
(***************************************************************************)
LocalObject == <<"local", 0>>

\* stamping with no copy made: the writes land on the pool's candidate
StampedObjectAliased(ref) == ref

\* the object stage 1 writes to: mergeMatches() spreads the candidate into a
\* new object and clonePreset() copies what guessTeambuilderPreset() found
StampedObject(ref) == LocalObject

\* the place of a candidate in a pool
PlaceOf(pool, id) == CHOOSE i \in DOMAIN pool : pool[i].calcdexId = id

\* the writes of the last pass to candidate objects: stage 1 assigns
\* playerName, source, ability, item, moves and teraTypes; the candidate of
\* stage 2 is a new object; the Sheets effect assigns to no candidate
CandidateWrites ==
  IF AutoRan
  THEN { [ref |-> StampedObject(
                    <<"presets",
                      PlaceOf(useBattlePresets(last.input.ready).presets,
                              AfterStage1(o).preset.calcdexId)>>),
          value |-> AfterStage1(o).preset] :
         o \in { u \in last.outcomes : AfterStage1(u).stage = 1 } }
  ELSE {}

\* a list of candidates after the writes of the last pass
Written(pool, name) ==
  [i \in DOMAIN pool |->
     IF \E w \in CandidateWrites : w.ref = <<name, i>>
     THEN (CHOOSE w \in CandidateWrites : w.ref = <<name, i>>).value
     ELSE pool[i]]

RevealedOf(st, key, i) == Range(st[key].pokemon[i].revealedMoves)

\* C30: no pass takes a move out of a slot's revealedMoves: what the
\* AutoPreset effect (stage 9 included, which empties moves) and the Sheets
\* effect make of a slot, and the slot of the store after the pass, hold
\* every move the slot had revealed before the pass.
C30_RevealedMovesKept ==
  last.effect # "none" =>
    /\ \A o \in last.outcomes :
         Range(SlotBefore(o).revealedMoves) \subseteq Range(o.out.pokemon.revealedMoves)
    /\ \A key \in Range(AllPlayerKeys) :
         /\ DOMAIN state[key].pokemon = DOMAIN last.before[key].pokemon
         /\ \A i \in DOMAIN last.before[key].pokemon :
              RevealedOf(last.before, key, i) \subseteq RevealedOf(state, key, i)

\* a slot that had revealed moves took the terminal fallback in a pass that
\* dispatched: its moves are empty and its revealed moves are there
C30_Witness ==
  /\ AutoRan
  /\ last.dispatched
  /\ \E o \in last.outcomes :
       /\ o.out.stage = 9
       /\ SlotBefore(o).revealedMoves # <<>>
       /\ state[o.key].pokemon[o.index].moves = <<>>
       /\ state[o.key].pokemon[o.index].revealedMoves = SlotBefore(o).revealedMoves


\* whether a list holds no element twice
NoDuplicate(seq) == \A i, j \in DOMAIN seq : seq[i] = seq[j] => i = j

\* the places of the valid moves of the line read that moves did not hold
FreshPlaces ==
  { i \in DOMAIN dexMoveNames(paste.line) :
      ~Includes(paste.before.moves, dexMoveNames(paste.line)[i]) }

\* whether the line read found room in moves
HadRoom == Len(paste.before.moves) < maxPresetMoves

\* the place of the move of the line read that went into moves (0: none did)
AddedPlace ==
  IF HadRoom /\ FreshPlaces # {}
  THEN CHOOSE i \in FreshPlaces : \A j \in FreshPlaces : i <= j
  ELSE 0

\* the moves of the line read that the claim sends to altMoves: those after
\* the move that went into moves, and all of them once moves is full
FurtherMoves ==
  { dexMoveNames(paste.line)[i] :
      i \in { j \in DOMAIN dexMoveNames(paste.line) :
                IF HadRoom THEN AddedPlace # 0 /\ j > AddedPlace ELSE TRUE } }

RandomsRan == AutoRan /\ IsRandoms(last.input.state.format)

\* what stages 1-7 of the run left of the slot
BeforeUsageFallback(o) ==
  FormatBlock(last.input.state, settings, BeforeFormatBlock(o))

Settled(pokemon) == pokemon.presetId # NULL /\ ~pokemon.autoPreset

\* the settled slots of the state a pass ran over
SettledSlots ==
  IF last.effect = "none" THEN {}
  ELSE
  UNION { { <<key, i>> : i \in { j \in DOMAIN last.input.state[key].pokemon :
                                   Settled(last.input.state[key].pokemon[j]) } } :
          key \in Range(AllPlayerKeys) }

\* C33 (as stated): a slot whose presetId is set and whose autoPreset is
\* false is changed by no pass, be it of the AutoPreset effect or of the
\* Sheets effect.
C33_SettledUntouched ==
  last.effect # "none" =>
    \A key \in Range(AllPlayerKeys) :
      \A i \in DOMAIN last.before[key].pokemon :
        Settled(last.before[key].pokemon[i])
          => state[key].pokemon[i] = last.before[key].pokemon[i]

\* C33 (amended): the AutoPreset effect does not go through a slot whose
\* presetId is set and whose autoPreset is false, and commits it as it was;
\* the Sheets effect goes through every slot that is not the server's,
\* settled or not, and leaves a settled slot as it was only when it is the
\* server's or has no sheet to take.
C33_SettledKeptByAutoPreset ==
  \A s \in SettledSlots :
    /\ AutoRan
         => /\ ~\E o \in last.outcomes : <<o.key, o.index>> = s
            /\ state[s[1]].pokemon[s[2]] = last.input.state[s[1]].pokemon[s[2]]
            /\ state[s[1]].pokemon[s[2]] = last.before[s[1]].pokemon[s[2]]
    /\ SheetsRan /\ last.outcomes # {}
         => /\ (\E o \in last.outcomes : <<o.key, o.index>> = s)
                 <=> last.input.state[s[1]].pokemon[s[2]].source # "server"
            /\ \A o \in last.outcomes :
                 <<o.key, o.index>> = s
                   => o.out.applied
                        = (SheetOfSlot(last.input.state, PlayerBefore(o),
                                       SlotBefore(o)).calcdexId # NULL)

\* a pass of the AutoPreset effect committed the party of a side with a
\* settled slot and an eligible one: the settled slot is as it was
C33_Witness ==
  /\ AutoRan
  /\ last.dispatched
  /\ \E s \in SettledSlots :
       /\ last.input.state[s[1]].pokemon[s[2]].source # "server"
       /\ \E o \in last.outcomes : o.key = s[1]
       /\ s[1] \in DOMAIN AutoParties
       /\ state[s[1]].pokemon[s[2]] = last.input.state[s[1]].pokemon[s[2]]


\* how many server-sourced candidates a list holds
ServerSourced(presets) ==
  Cardinality({ i \in DOMAIN presets : presets[i].source = "server" })

\* the candidate the server block had when it came to shouldAddServerPreset
ServerCandidate(o) == AfterStage2(o).preset

\* C34: a slot's presets hold at most one server-sourced candidate, at the
\* front of the list; a pass puts the server's candidate there only when
\* the list holds no server-sourced candidate yet, and leaves the list as
\* it is otherwise.
C34_OneServerPreset ==
  /\ \A key \in Range(AllPlayerKeys) :
       \A i \in DOMAIN state[key].pokemon :
         \A presets \in {state[key].pokemon[i].presets} :
           /\ ServerSourced(presets) <= 1
           /\ ServerSourced(presets) = 1 => presets[1].source = "server"
  /\ \A o \in last.outcomes :
       AutoRan
         => o.out.pokemon.presets =
              IF /\ IsServerSourced(SlotBefore(o))
                 /\ ServerCandidate(o).calcdexId # NULL
                 /\ ServerSourced(SlotBefore(o).presets) = 0
              THEN <<ServerCandidate(o)>> \o SlotBefore(o).presets
              ELSE SlotBefore(o).presets

\* a pass went again through a slot whose presets held the server's
\* candidate of an earlier pass in front of an imported one, found the
\* server's candidate again, and left the list as it was
C34_Witness ==
  /\ AutoRan
  /\ last.dispatched
  /\ \E o \in last.outcomes :
       /\ Len(SlotBefore(o).presets) = 2
       /\ SlotBefore(o).presets[1].source = "server"
       /\ SlotBefore(o).presets[2].source = "import"
       /\ ServerCandidate(o).calcdexId # NULL
       /\ state[o.key].pokemon[o.index].presets = SlotBefore(o).presets


(***************************************************************************)
(* The hook left to itself: it mounts on a battle whose pools are ready,   *)
(* with or without leaked sheets, and no external event follows.  React    *)
(* runs every effect it scheduled and renders again after every change of  *)
(* the store, hence the weak fairness of each step.                        *)
(***************************************************************************)
\* a battle that has its leaked sheets as the hook mounts
WithSheets(battle, wave) ==
  [battle EXCEPT !.sheets = wave, !.sheetsNonce = IF wave = <<>> THEN 0 ELSE 1]

InitQuiet ==
  /\ state \in { WithSheets(battle, wave) :
                   battle \in { Battle(f, p1, p2) :
                                  f \in Formats, p1 \in P1Parties, p2 \in P2Parties }
                              \cup RandomBattles \cup AttachedBattles,
                   wave \in SheetWaves \cup {<<>>} }
  /\ ready = TRUE
  /\ settings \in [prioritizeUsageStats : BOOLEAN]
  /\ snap = Rendered
  /\ pending = {"auto", "sheets"}
  /\ appliedSheets = FALSE
  /\ events = 0
  /\ last = NoRun
  /\ arrived = IF state.sheets = <<>> THEN <<>>
               ELSE << { state.sheets[i].calcdexId : i \in DOMAIN state.sheets } >>
  /\ sheetCommits = 0
  /\ ranDeps = <<>>
  /\ paste = NoPaste
  /\ built = NoBuild

NextQuiet ==
  \/ RunAutoPreset
  \/ RunSheets
  \/ Render

SpecQuiet ==
  /\ InitQuiet
  /\ [][NextQuiet]_vars
  /\ WF_vars(RunAutoPreset)
  /\ WF_vars(RunSheets)
  /\ WF_vars(Render)

\* no effect is scheduled and the hook has rendered the store as it is
AtRest == pending = {} /\ snap = Rendered

\* C35: with the pools ready and no external event, the passes of the
\* AutoPreset effect that its own commits schedule come to an end: the hook
\* comes to rest, the last commit having left every fingerprint as the last
\* pass found it, and it stays at rest.
C35_PassesEnd ==
  /\ <>[]AtRest
  /\ [](AtRest => RenderedDeps = ranDeps)

\* the hook at rest after a pass that a commit had scheduled: the pass
\* committed and no fingerprint changed
C35_Witness ==
  /\ AtRest
  /\ AutoRan
  /\ last.dispatched
  /\ last.input.state = last.before
  /\ \E o \in last.outcomes :
       SlotBefore(o).presetId # NULL /\ SlotBefore(o).autoPreset
  /\ AutoDeps(state, useBattlePresets(ready)) = AutoDeps(last.input.state, useBattlePresets(last.input.ready))
  /\ AutoDeps(state, useBattlePresets(ready)) = ranDeps


\* the groups of the call that list an ability
GroupsListing(name) ==
  { g \in DOMAIN built.options : Includes(built.options[g].options, name) }

\* C36: buildAbilityOptions lists no ability in more than one of its groups
\* (Inherited or Traced, Transformed, Pool, Legal, All), whatever the slot,
\* and returns no group for a legacy format or a slot without speciesForme.
C36_NoAbilityTwice ==
  built.called =>
    /\ \A name \in Range(BattleAbilities) : Cardinality(GroupsListing(name)) <= 1
    /\ (detectLegacyGen(detectGenFromFormat(built.format))
          \/ built.pokemon.speciesForme = NULL)
         => built.options = <<>>

=============================================================================
